---- MODULE Spec2Model ----
(***************************************************************************)
(* Protocol engine of ugdb (crate gdbmi): the GDB session handle, its      *)
(* command executor (execute / execute_later / is_running /                *)
(* interrupt_execution), the output worker thread and the gdb subprocess   *)
(* on the other side of the two pipes.                                     *)
(*                                                                         *)
(* Text is modelled as sequences of one-character strings, so that a line  *)
(* of gdb output has to be parsed before it becomes a record.              *)
(***************************************************************************)
EXTENDS Integers, Sequences, FiniteSets, TLC

(***************************************************************************)
(* Bounds of the model.                                                    *)
(***************************************************************************)
\* commands the caller may write in one behaviour
MaxCmds == 3
\* Exec out-of-band records gdb may emit on its own in one behaviour
MaxExec == 2
\* stream / malformed lines gdb may emit in one behaviour
MaxNoise == 1
\* lines that may sit unread in the output pipe
MaxPipe == 2
\* well-formed lines on either side of a malformed one
MaxGood == 1
\* result lines a scripted gdb emits when values are parsed
MaxLines == 2
\* parameters of a command that is serialized and read back
MaxParams == 2

\* longest layout string enumerated in full
MaxInput == 4

\* deepest stack level a frame switch starts from
MaxLevel == 1

\* highest address of an assembly line
MaxAddr == 2

\* most breakpoints gdb holds at a time
MaxBps == 2

(***************************************************************************)
(* Characters.                                                             *)
(***************************************************************************)
Digits == {"0", "1", "2", "3", "4", "5", "6", "7", "8", "9"}

Letters ==
  {"a", "b", "c", "d", "e", "f", "g", "h", "i", "j", "k", "l", "m",
   "n", "o", "p", "q", "r", "s", "t", "u", "v", "w", "x", "y", "z"}

IdentChars == Letters \cup Digits \cup {"-", "_"}

QUOTE == "\""

BACKSLASH == "\\"

\* the decimal digit character of a number 0..9
DigitChar(k) == <<"0", "1", "2", "3", "4", "5", "6", "7", "8", "9">>[k + 1]

(***************************************************************************)
(* Record grammar (one line of gdb output -> one record).                  *)
(* Every parser takes the text s and a position i and returns              *)
(* [ok, v, i]: success, the value, and the position after it.              *)
(***************************************************************************)
Fail == [ok |-> FALSE, v |-> <<>>, i |-> 0]

\* F applied to the value of e, with e evaluated once
Strict(e, F(_)) == CHOOSE y \in {F(x) : x \in {e}} : TRUE

At(s, i) == IF i >= 1 /\ i <= Len(s) THEN s[i] ELSE "EOL"

RECURSIVE SkipWhile(_, _, _)
SkipWhile(s, i, set) ==
  IF At(s, i) \in set THEN SkipWhile(s, i + 1, set) ELSE i

\* a quoted string literal with the escapes \" \\ \n \t, decoded
RECURSIVE StringBody(_, _, _)
StringBody(s, i, acc) ==
  LET c == At(s, i) IN
  IF c = "EOL" THEN Fail
  ELSE IF c = QUOTE THEN [ok |-> TRUE, v |-> acc, i |-> i + 1]
  ELSE IF c = BACKSLASH THEN
    LET e == At(s, i + 1) IN
    IF e = QUOTE THEN StringBody(s, i + 2, Append(acc, QUOTE))
    ELSE IF e = BACKSLASH THEN StringBody(s, i + 2, Append(acc, BACKSLASH))
    ELSE IF e = "n" THEN StringBody(s, i + 2, Append(acc, "\n"))
    ELSE IF e = "t" THEN StringBody(s, i + 2, Append(acc, "\t"))
    ELSE Fail
  ELSE StringBody(s, i + 1, Append(acc, c))

ParseString(s, i) ==
  IF At(s, i) = QUOTE THEN StringBody(s, i + 1, <<>>) ELSE Fail

\* an identifier: a class keyword or a key
ParseIdent(s, i) ==
  Strict(SkipWhile(s, i, IdentChars), LAMBDA j :
    IF j > i /\ At(s, i) \in Letters
    THEN [ok |-> TRUE, v |-> SubSeq(s, i, j - 1), i |-> j]
    ELSE Fail)

\* characters that end a bare token
BareStop == {",", "}", "]", "{", "[", "=", QUOTE, "EOL"}

RECURSIVE BareEnd(_, _)
BareEnd(s, i) == IF At(s, i) \in BareStop THEN i ELSE BareEnd(s, i + 1)

\* (mutant) a token made of digits turned into a number
StrCoerced(chars) ==
  IF chars # <<>> /\ \A i \in 1..Len(chars) : chars[i] \in Digits
  THEN [t |-> "Number", s |-> chars]
  ELSE [t |-> "String", s |-> chars]

Str(chars) == [t |-> "String", s |-> chars]

RECURSIVE ParseValue(_, _)
RECURSIVE ParsePairs(_, _, _, _)
RECURSIVE ParseElems(_, _, _)

\* key=value (,key=value)* up to the closing character; acc is the map so far
ParsePairs(s, i, close, acc) ==
  Strict(ParseIdent(s, i), LAMBDA k :
    IF ~k.ok \/ At(s, k.i) # "=" THEN Fail
    ELSE Strict(ParseValue(s, k.i + 1), LAMBDA val :
      IF ~val.ok THEN Fail
      ELSE IF At(s, val.i) = ","
      THEN ParsePairs(s, val.i + 1, close, Append(acc, <<k.v, val.v>>))
      ELSE IF At(s, val.i) = close
      THEN [ok |-> TRUE, v |-> Append(acc, <<k.v, val.v>>), i |-> val.i]
      ELSE Fail))

\* value (,value)* up to "]"; an element is bare or key=value
ParseElems(s, i, acc) ==
  Strict(ParseIdent(s, i), LAMBDA k :
    Strict(IF k.ok /\ At(s, k.i) = "=" THEN ParseValue(s, k.i + 1)
           ELSE ParseValue(s, i), LAMBDA val :
      IF ~val.ok THEN Fail
      ELSE IF At(s, val.i) = ","
      THEN ParseElems(s, val.i + 1, Append(acc, val.v))
      ELSE IF At(s, val.i) = "]"
      THEN [ok |-> TRUE, v |-> Append(acc, val.v), i |-> val.i]
      ELSE Fail))

ParseValue(s, i) ==
  IF At(s, i) = QUOTE THEN
    Strict(ParseString(s, i), LAMBDA r :
      IF r.ok THEN [ok |-> TRUE, v |-> Str(r.v), i |-> r.i] ELSE Fail)
  ELSE IF At(s, i) = "{" THEN
    IF At(s, i + 1) = "}"
    THEN [ok |-> TRUE, v |-> [t |-> "Map", m |-> <<>>], i |-> i + 2]
    ELSE Strict(ParsePairs(s, i + 1, "}", <<>>), LAMBDA r :
      IF r.ok THEN [ok |-> TRUE, v |-> [t |-> "Map", m |-> r.v], i |-> r.i + 1]
      ELSE Fail)
  ELSE IF At(s, i) = "[" THEN
    IF At(s, i + 1) = "]"
    THEN [ok |-> TRUE, v |-> [t |-> "List", l |-> <<>>], i |-> i + 2]
    ELSE Strict(ParseElems(s, i + 1, <<>>), LAMBDA r :
      IF r.ok THEN [ok |-> TRUE, v |-> [t |-> "List", l |-> r.v], i |-> r.i + 1]
      ELSE Fail)
  ELSE
    Strict(BareEnd(s, i), LAMBDA j :
      IF j > i THEN [ok |-> TRUE, v |-> Str(SubSeq(s, i, j - 1)), i |-> j]
      ELSE Fail)

\* the class keywords of a result record
C_done == <<"d", "o", "n", "e">>

C_running == <<"r", "u", "n", "n", "i", "n", "g">>

C_connected == <<"c", "o", "n", "n", "e", "c", "t", "e", "d">>

C_error == <<"e", "r", "r", "o", "r">>

C_exit == <<"e", "x", "i", "t">>

C_stopped == <<"s", "t", "o", "p", "p", "e", "d">>

ResultClass(ident) ==
  CASE ident = C_done -> "Done"
    [] ident = C_running -> "Running"
    [] ident = C_connected -> "Connected"
    [] ident = C_error -> "Error"
    [] ident = C_exit -> "Exit"
    [] OTHER -> "none"

OobChannel(c) ==
  CASE c = "*" -> "Exec" [] c = "=" -> "Notify" [] c = "+" -> "Status"
    [] OTHER -> "none"

StreamChannel(c) ==
  CASE c = "~" -> "Console" [] c = "@" -> "Target" [] c = "&" -> "Log"
    [] OTHER -> "none"

ParseError == [kind |-> "ParseError"]

\* a result or out-of-band line from its class keyword on; c is its prefix
ParseRecord(s, c, p) ==
  Strict(ParseIdent(s, p), LAMBDA cls :
    IF ~cls.ok THEN ParseError
    ELSE
      Strict(IF At(s, cls.i) = ","
             THEN ParsePairs(s, cls.i + 1, "EOL", <<>>)
             ELSE IF At(s, cls.i) = "EOL"
                  THEN [ok |-> TRUE, v |-> <<>>, i |-> cls.i]
                  ELSE Fail, LAMBDA rest :
        IF ~rest.ok THEN ParseError
        ELSE IF c = "^" THEN
          IF ResultClass(cls.v) = "none" THEN ParseError
          ELSE [kind |-> "Result", class |-> ResultClass(cls.v),
                payload |-> rest.v]
        ELSE [kind |-> "OutOfBand", channel |-> OobChannel(c), class |-> cls.v,
              payload |-> rest.v]))

\* a stream line: its text starts at p
ParseStream(s, c, p) ==
  Strict(ParseString(s, p), LAMBDA r :
    IF r.ok /\ At(s, r.i) = "EOL"
    THEN [kind |-> "Stream", channel |-> StreamChannel(c), text |-> r.v]
    ELSE ParseError)

\* one line (without its newline) -> Result / OutOfBand / Stream / ParseError
ParseLine(s) ==
  Strict(SkipWhile(s, 1, Digits), LAMBDA p :
    IF At(s, p) \in {"^", "*", "=", "+"} THEN ParseRecord(s, At(s, p), p + 1)
    ELSE IF At(s, p) \in {"~", "@", "&"} THEN ParseStream(s, At(s, p), p + 1)
    ELSE ParseError)

(***************************************************************************)
(* Outgoing commands (input::MiCommand) and their serialization.           *)
(***************************************************************************)
\* "data-evaluate-expression"
OP_evaluate ==
  <<"d", "a", "t", "a", "-", "e", "v", "a", "l", "u", "a", "t", "e", "-",
    "e", "x", "p", "r", "e", "s", "s", "i", "o", "n">>

\* the k-th command the caller sends: evaluate the expression "k"
MiCommand(k) ==
  [operation |-> OP_evaluate, parameters |-> << <<DigitChar(k)>> >>,
   options |-> <<>>]

\* (mutant) an escape of the quote only
RECURSIVE EscapeQuoteOnly(_)
EscapeQuoteOnly(chars) ==
  IF chars = <<>> THEN <<>>
  ELSE (IF Head(chars) = QUOTE THEN <<BACKSLASH, QUOTE>> ELSE <<Head(chars)>>)
         \o EscapeQuoteOnly(Tail(chars))

RECURSIVE Escape(_)
Escape(chars) ==
  IF chars = <<>> THEN <<>>
  ELSE
    LET c == Head(chars)
        e == CASE c = QUOTE -> <<BACKSLASH, QUOTE>>
               [] c = BACKSLASH -> <<BACKSLASH, BACKSLASH>>
               [] c = "\n" -> <<BACKSLASH, "n">>
               [] c = "\t" -> <<BACKSLASH, "t">>
               [] OTHER -> <<c>>
    IN e \o Escape(Tail(chars))

RECURSIVE WriteParameters(_)
WriteParameters(ps) ==
  IF ps = <<>> THEN <<>>
  ELSE <<" ", QUOTE>> \o Escape(Head(ps)) \o <<QUOTE>> \o WriteParameters(Tail(ps))

RECURSIVE WriteOptions(_)
WriteOptions(os) ==
  IF os = <<>> THEN <<>>
  ELSE
    LET o == Head(os) IN
    <<" ">> \o o.flag \o (IF o.has THEN <<"=">> \o o.value ELSE <<>>)
      \o WriteOptions(Tail(os))

\* the line written for a command (its terminating newline left out)
write_interpreter_string(cmd) ==
  <<"-">> \o cmd.operation \o WriteParameters(cmd.parameters)
    \o WriteOptions(cmd.options)

(***************************************************************************)
(* The gdb subprocess, seen from its two pipes.                            *)
(***************************************************************************)
\* "value"
K_value == <<"v", "a", "l", "u", "e">>

\* "reason"
K_reason == <<"r", "e", "a", "s", "o", "n">>

\* "breakpoint-hit"
V_breakpoint_hit ==
  <<"b", "r", "e", "a", "k", "p", "o", "i", "n", "t", "-", "h", "i", "t">>

\* *running
RunningLine == <<"*">> \o C_running

\* *stopped,reason="breakpoint-hit"
StoppedLine ==
  <<"*">> \o C_stopped \o <<",">> \o K_reason \o <<"=", QUOTE>>
    \o V_breakpoint_hit \o <<QUOTE>>

\* ^done,value="<text>"
DoneLine(text) ==
  <<"^">> \o C_done \o <<",">> \o K_value \o <<"=", QUOTE>> \o Escape(text)
    \o <<QUOTE>>

\* ~"hi\n"
StreamLine == <<"~", QUOTE, "h", "i", BACKSLASH, "n", QUOTE>>

\* ^done,value=   (cut short: not a line of the grammar)
BadLine == <<"^">> \o C_done \o <<",">> \o K_value \o <<"=">>

\* what gdb makes of a command line: the value of its first parameter
GdbEval(line) ==
  LET i == SkipWhile(line, 1, IdentChars \cup {"-", " "})
      r == ParseString(line, i)
  IN IF r.ok THEN r.v ELSE <<>>

(***************************************************************************)
(* State.                                                                  *)
(***************************************************************************)
VARIABLES
  is_running,     \* GDB.is_running: the shared AtomicBool
  result_output,  \* the mpsc channel of result records, oldest first
  worker,         \* the "gdbmi parser" thread: "reading" or "done"
  gdb,            \* the subprocess: "alive" or "exited"
  stdin,          \* command lines written and not yet read by gdb
  stdout,         \* output lines emitted and not yet read by the worker
  debuggee,       \* whether gdb is really running the debuggee
  sigint,         \* a SIGINT delivered to gdb and not yet acted upon
  pc,             \* the caller: "ready", "write", "recv" or "panicked"
  call,           \* the caller's current (or last) call
  ret,            \* what the caller's last completed call returned
  nWritten,       \* commands written to stdin so far
  nExec,          \* Exec records gdb emitted so far
  nNoise,         \* stream and malformed lines gdb emitted so far
  oob_sink,       \* records passed to OutOfBandRecordSink::send, in order
  log_sink,       \* stream records logged, in order
  lastExec,       \* class of the last Exec record the worker processed
  script,         \* lines a scripted subprocess has still to emit
  layout,         \* layout::parse: its input and, once it returned, its result
  win,            \* the CodeWindow: its modes, content states and source view
  sw              \* CodeWindow::try_switch_stackframe: its position and locals

vars ==
  <<is_running, result_output, worker, gdb, stdin, stdout, debuggee, sigint,
    pc, call, ret, nWritten, nExec, nNoise, oob_sink, log_sink, lastExec,
    script, layout, win, sw>>

callerVars == <<pc, call, ret, nWritten>>

workerVars == <<is_running, result_output, worker, oob_sink, log_sink, lastExec>>

gdbVars == <<gdb, debuggee, nExec, nNoise, script>>

\* the whole state of the GDB session object and its subprocess
sessionVars == <<callerVars, workerVars, gdbVars, stdin, stdout, sigint>>

\* the state of the terminal user interface built on the session
uiVars == <<layout, win, sw>>

\* no layout string given to layout::parse yet
LayoutIdle == [input |-> <<>>, done |-> FALSE, result |-> [kind |-> "none"]]

\* enum DisplayMode
Source == [tag |-> "Source", msg |-> ""]
Assembly == [tag |-> "Assembly", msg |-> ""]
SideBySide == [tag |-> "SideBySide", msg |-> ""]
Message(m) == [tag |-> "Message", msg |-> m]

\* enum SrcContentState
SrcAvailable == [st |-> "Available", path |-> ""]
SrcUnavailable == [st |-> "Unavailable", path |-> ""]
NotYetLoaded(path) == [st |-> "NotYetLoaded", path |-> path]

\* enum AsmContentState; the line and the addresses are left out
AsmAvailable == [st |-> "Available", path |-> ""]
AsmUnavailable == [st |-> "Unavailable", path |-> ""]
NotYetLoadedFile(path) == [st |-> "NotYetLoadedFile", path |-> path]
NotYetLoadedAddr == [st |-> "NotYetLoadedAddr", path |-> ""]

\* Option::None for a path
NoFile == ""

\* SourceView::new: no file information and an empty pager
SourceViewNew == [file_info |-> NoFile, content |-> NoFile]

\* Option::None for an Address
NoAddress == -1

\* a pager without content has no decorator: nothing is marked
NoDecorator == [stop_position |-> NoAddress, breakpoint_addresses |-> {}]

\* AssemblyView::new: lines are the addresses of the lines of the pager's
\* content, <<>> without content; decorator is the decorator of that
\* content
AssemblyViewNew ==
  [lines |-> <<>>, decorator |-> NoDecorator, last_stop_position |-> NoAddress]

\* the message ugdb starts with
Welcome == "welcome"

\* CodeWindow::new; drawn is the mode last drawn, op the last operation,
\* panicked the message of the panic that ended the thread, if any,
\* loads the calls of SourceView::show, AssemblyView::show_file and
\* AssemblyView::show_address the last operation made, each with whether
\* it returned Ok, breakpoints the breakpoints of gdb as the operations
\* of the window get them (p.gdb.breakpoints.values())
CodeWindowNew ==
  [preferred_mode |-> Message(Welcome),
   src_state |-> SrcUnavailable,
   asm_state |-> AsmUnavailable,
   src_view |-> SourceViewNew,
   asm_view |-> AssemblyViewNew,
   breakpoints |-> {},
   drawn |-> Message(""),
   op |-> "new",
   panicked |-> "",
   loads |-> <<>>]

\* return values: Err(Busy), Err(Quit), Ok(record), (), a bool
NoRecord == [class |-> "none", payload |-> <<>>]

Return(tag) == [tag |-> tag, v |-> NoRecord, b |-> FALSE]

Busy == Return("Busy")

Quit == Return("Quit")

Ok(v) == [tag |-> "Ok", v |-> v, b |-> FALSE]

\* no call of try_switch_stackframe yet.  step is where the call stands
\* ("idle", "depth", "select", "frame", "returned"); up, level, depth
\* and new_level are its argument and locals (depth -1 while unknown);
\* calls lists the calls it made on the session, in order; select_cmd
\* and frame_cmd are the commands these calls wrote; frame_ret is what
\* the frame query returned; failed names the query that returned an
\* error; result is its return value; before is the window at its start
SwitchIdle ==
  [step |-> "idle", up |-> FALSE, level |-> 0, depth |-> -1, new_level |-> 0,
   calls |-> <<>>, select_cmd |-> 0, frame_cmd |-> 0,
   frame_ret |-> Return("None"), failed |-> "", result |-> "none",
   before |-> CodeWindowNew]

\* the user interface before any of its operations ran
UiInit == layout = LayoutIdle /\ win = CodeWindowNew /\ sw = SwitchIdle

\* The record of a call: its kind and the kind of the call before it (op,
\* prev); what held when it started: the flag (flag), the channel closed and
\* drained (dead), the subprocess gone (eof), the debuggee really running
\* (d0), the commands written so far (w0), the records the sink had been
\* given (oob); and what it did: the command it wrote (cmd, 0 for none),
\* how many it wrote (wrote), the flag and the debuggee's real state at that
\* write (wflag, debuggee), the records it took from the channel (took).
NoCall ==
  [op |-> "none", prev |-> "none", cmd |-> 0, flag |-> FALSE, dead |-> FALSE,
   eof |-> FALSE, d0 |-> FALSE, w0 |-> 0, oob |-> 0, wrote |-> 0, wflag |-> FALSE, debuggee |-> FALSE,
   took |-> 0]

\* a call of kind op starting in the current state
NewCall(op) ==
  [op |-> op, prev |-> call.op, cmd |-> 0, flag |-> is_running,
   dead |-> (worker = "done" /\ result_output = <<>>),
   eof |-> (gdb = "exited"), d0 |-> debuggee, w0 |-> nWritten,
   oob |-> Len(oob_sink), wrote |-> 0, wflag |-> FALSE, debuggee |-> FALSE,
   took |-> 0]

\* the call c, having written command k in the current state
Wrote(c, k) ==
  [c EXCEPT !.cmd = k, !.wrote = c.wrote + 1, !.wflag = is_running,
            !.debuggee = debuggee]

\* (mutant) the flag created set
SpawnFlagSet == TRUE

\* the flag's value in GDB::spawn
SpawnFlag == FALSE

Init ==
  /\ is_running = SpawnFlag
  /\ result_output = <<>>
  /\ worker = "reading"
  /\ gdb = "alive"
  /\ stdin = <<>>
  /\ stdout = <<>>
  /\ debuggee = FALSE
  /\ sigint = FALSE
  /\ pc = "ready"
  /\ call = NoCall
  /\ ret = Return("None")
  /\ nWritten = 0
  /\ nExec = 0
  /\ nNoise = 0
  /\ oob_sink = <<>>
  /\ log_sink = <<>>
  /\ lastExec = "none"
  /\ script = <<>>
  /\ UiInit

(***************************************************************************)
(* The caller thread: GDB::execute, execute_later, is_running,             *)
(* interrupt_execution.  A call that writes a command sends the next       *)
(* command, number nWritten + 1.                                           *)
(***************************************************************************)
\* the write of a command line into the subprocess input: it fails once the
\* read end of the pipe is gone, and the .expect() on it then panics
WriteCommand ==
  IF gdb = "alive"
  THEN /\ stdin' = Append(stdin, write_interpreter_string(MiCommand(nWritten + 1)))
       /\ nWritten' = nWritten + 1
       /\ pc' = "recv"
  ELSE /\ pc' = "panicked"
       /\ UNCHANGED <<stdin, nWritten>>

\* (mutant) execute without the busy check
ExecuteCheckNoBusy ==
  /\ pc = "ready"
  /\ nWritten < MaxCmds
  /\ call' = NewCall("execute")
  /\ pc' = "write"
  /\ UNCHANGED <<ret, nWritten, stdin, sigint>>
  /\ UNCHANGED workerVars
  /\ UNCHANGED <<gdbVars, stdout>>
  /\ UNCHANGED uiVars

\* (mutant) execute refusing also when its last call was refused, without a
\* fresh load of the flag
ExecuteCheckLatched ==
  /\ pc = "ready"
  /\ nWritten < MaxCmds
  /\ call' = [NewCall("execute") EXCEPT
                !.flag = is_running \/ (call.op = "execute" /\ call.flag)]
  /\ IF is_running \/ (call.op = "execute" /\ call.flag)
     THEN /\ ret' = Busy
          /\ pc' = "ready"
     ELSE /\ pc' = "write"
          /\ UNCHANGED ret
  /\ UNCHANGED <<nWritten, stdin, sigint>>
  /\ UNCHANGED workerVars
  /\ UNCHANGED <<gdbVars, stdout>>
  /\ UNCHANGED uiVars

\* execute, up to the load of the flag: Busy, or on to the write
ExecuteCheck ==
  /\ pc = "ready"
  /\ nWritten < MaxCmds
  /\ call' = NewCall("execute")
  /\ IF is_running
     THEN /\ ret' = Busy
          /\ pc' = "ready"
     ELSE /\ pc' = "write"
          /\ UNCHANGED ret
  /\ UNCHANGED <<nWritten, stdin, sigint>>
  /\ UNCHANGED workerVars
  /\ UNCHANGED <<gdbVars, stdout>>
  /\ UNCHANGED uiVars

\* execute: write_interpreter_string(...).expect(...)
ExecuteWrite ==
  /\ pc = "write"
  /\ WriteCommand
  /\ call' = IF gdb = "alive"
             THEN Wrote(call, nWritten + 1)
             ELSE call
  /\ UNCHANGED <<ret, sigint>>
  /\ UNCHANGED workerVars
  /\ UNCHANGED <<gdbVars, stdout>>
  /\ UNCHANGED uiVars

\* (mutant) try_recv() in place of recv(): an empty channel is an error at once
ExecuteRecvTry ==
  /\ pc = "recv"
  /\ call.op = "execute"
  /\ \/ /\ result_output # <<>>
        /\ ret' = Ok(Head(result_output))
        /\ result_output' = Tail(result_output)
        /\ call' = [call EXCEPT !.took = call.took + 1]
     \/ /\ result_output = <<>>
        /\ ret' = Quit
        /\ UNCHANGED <<result_output, call>>
  /\ pc' = "ready"
  /\ UNCHANGED <<nWritten, stdin, sigint>>
  /\ UNCHANGED <<is_running, worker, oob_sink, log_sink, lastExec>>
  /\ UNCHANGED <<gdbVars, stdout>>
  /\ UNCHANGED uiVars

\* (mutant) a receive that a closed channel does not wake
ExecuteRecvNoWake ==
  /\ pc = "recv"
  /\ call.op = "execute"
  /\ result_output # <<>>
  /\ ret' = Ok(Head(result_output))
  /\ result_output' = Tail(result_output)
  /\ call' = [call EXCEPT !.took = call.took + 1]
  /\ pc' = "ready"
  /\ UNCHANGED <<nWritten, stdin, sigint>>
  /\ UNCHANGED <<is_running, worker, oob_sink, log_sink, lastExec>>
  /\ UNCHANGED <<gdbVars, stdout>>
  /\ UNCHANGED uiVars

\* (mutant) a receive that reports a closed channel before the records
\* still queued on it
ExecuteRecvClosedFirst ==
  /\ pc = "recv"
  /\ call.op = "execute"
  /\ \/ /\ result_output # <<>>
        /\ worker = "reading"
        /\ ret' = Ok(Head(result_output))
        /\ result_output' = Tail(result_output)
        /\ call' = [call EXCEPT !.took = call.took + 1]
     \/ /\ worker = "done"
        /\ ret' = Quit
        /\ UNCHANGED <<result_output, call>>
  /\ pc' = "ready"
  /\ UNCHANGED <<nWritten, stdin, sigint>>
  /\ UNCHANGED <<is_running, worker, oob_sink, log_sink, lastExec>>
  /\ UNCHANGED <<gdbVars, stdout>>
  /\ UNCHANGED uiVars

\* execute: result_output.recv(), blocking while the channel is empty and open
ExecuteRecv ==
  /\ pc = "recv"
  /\ call.op = "execute"
  /\ \/ /\ result_output # <<>>
        /\ ret' = Ok(Head(result_output))
        /\ result_output' = Tail(result_output)
        /\ call' = [call EXCEPT !.took = call.took + 1]
     \/ /\ result_output = <<>>
        /\ worker = "done"
        /\ ret' = Quit
        /\ UNCHANGED <<result_output, call>>
  /\ pc' = "ready"
  /\ UNCHANGED <<nWritten, stdin, sigint>>
  /\ UNCHANGED <<is_running, worker, oob_sink, log_sink, lastExec>>
  /\ UNCHANGED <<gdbVars, stdout>>
  /\ UNCHANGED uiVars

\* execute_later: the write, with no look at the flag
ExecuteLaterWrite ==
  /\ pc = "ready"
  /\ nWritten < MaxCmds
  /\ WriteCommand
  /\ call' = IF gdb = "alive"
             THEN Wrote(NewCall("execute_later"), nWritten + 1)
             ELSE NewCall("execute_later")
  /\ UNCHANGED <<ret, sigint>>
  /\ UNCHANGED workerVars
  /\ UNCHANGED <<gdbVars, stdout>>
  /\ UNCHANGED uiVars

\* (mutant) execute_later returning after the write, without the recv()
ExecuteLaterNoRecv ==
  /\ pc = "recv"
  /\ call.op = "execute_later"
  /\ ret' = Return("Unit")
  /\ pc' = "ready"
  /\ UNCHANGED <<call, result_output, nWritten, stdin, sigint>>
  /\ UNCHANGED <<is_running, worker, oob_sink, log_sink, lastExec>>
  /\ UNCHANGED <<gdbVars, stdout>>
  /\ UNCHANGED uiVars

\* execute_later: let _ = result_output.recv()
ExecuteLaterRecv ==
  /\ pc = "recv"
  /\ call.op = "execute_later"
  /\ \/ /\ result_output # <<>>
        /\ result_output' = Tail(result_output)
        /\ call' = [call EXCEPT !.took = call.took + 1]
     \/ /\ result_output = <<>>
        /\ worker = "done"
        /\ UNCHANGED <<result_output, call>>
  /\ ret' = Return("Unit")
  /\ pc' = "ready"
  /\ UNCHANGED <<nWritten, stdin, sigint>>
  /\ UNCHANGED <<is_running, worker, oob_sink, log_sink, lastExec>>
  /\ UNCHANGED <<gdbVars, stdout>>
  /\ UNCHANGED uiVars

\* (mutant) is_running reading the flag with swap(false)
IsRunningSwap ==
  /\ pc = "ready"
  /\ call' = NewCall("is_running")
  /\ ret' = [tag |-> "Bool", v |-> NoRecord, b |-> is_running]
  /\ is_running' = FALSE
  /\ UNCHANGED <<pc, nWritten, stdin, sigint>>
  /\ UNCHANGED <<result_output, worker, oob_sink, log_sink, lastExec>>
  /\ UNCHANGED <<gdbVars, stdout>>
  /\ UNCHANGED uiVars

\* is_running: one load of the flag
IsRunning ==
  /\ pc = "ready"
  /\ call' = NewCall("is_running")
  /\ ret' = [tag |-> "Bool", v |-> NoRecord, b |-> is_running]
  /\ UNCHANGED <<pc, nWritten, stdin, sigint>>
  /\ UNCHANGED workerVars
  /\ UNCHANGED <<gdbVars, stdout>>
  /\ UNCHANGED uiVars

\* the results kill(pid, SIGINT) can have: Ok while gdb lives; once it has
\* exited, Ok while its pid is still a zombie's (GDB never waits for the
\* child) and Err(ESRCH) where the host process has its children reaped
KillResults == IF gdb = "alive" THEN {TRUE} ELSE BOOLEAN

\* (mutant) interrupt_execution unwrapping the result of kill itself
InterruptExecutionUnwrap ==
  /\ pc = "ready"
  /\ call' = NewCall("interrupt")
  /\ \E ok \in KillResults :
       /\ ret' = IF ok THEN Return("Unit") ELSE ret
       /\ pc' = IF ok THEN "ready" ELSE "panicked"
  /\ sigint' = (sigint \/ gdb = "alive")
  /\ UNCHANGED <<nWritten, stdin>>
  /\ UNCHANGED workerVars
  /\ UNCHANGED <<gdbVars, stdout>>
  /\ UNCHANGED uiVars

\* (mutant) interrupt_execution clearing the flag itself
InterruptExecutionClearsFlag ==
  /\ pc = "ready"
  /\ call' = NewCall("interrupt")
  /\ \E ok \in KillResults :
       ret' = IF ok THEN Return("Unit") ELSE Return("SignalError")
  /\ sigint' = (sigint \/ gdb = "alive")
  /\ is_running' = FALSE
  /\ UNCHANGED <<pc, nWritten, stdin>>
  /\ UNCHANGED <<result_output, worker, oob_sink, log_sink, lastExec>>
  /\ UNCHANGED <<gdbVars, stdout>>
  /\ UNCHANGED uiVars

\* interrupt_execution: kill(pid, SIGINT), its Result handed to the caller
InterruptExecution ==
  /\ pc = "ready"
  /\ call' = NewCall("interrupt")
  /\ \E ok \in KillResults :
       ret' = IF ok THEN Return("Unit") ELSE Return("SignalError")
  /\ sigint' = (sigint \/ gdb = "alive")
  /\ UNCHANGED <<pc, nWritten, stdin>>
  /\ UNCHANGED workerVars
  /\ UNCHANGED <<gdbVars, stdout>>
  /\ UNCHANGED uiVars

(***************************************************************************)
(* The worker thread (output::process_output), started by GDB::spawn.      *)
(***************************************************************************)
\* what one record does to the flag
FlagAfter(r) ==
  IF r.kind = "OutOfBand" /\ r.channel = "Exec" /\ r.class = C_running THEN TRUE
  ELSE IF r.kind = "OutOfBand" /\ r.channel = "Exec" /\ r.class = C_stopped
  THEN FALSE
  ELSE is_running

\* whether the text pre starts the text s
StartsWith(s, pre) == Len(s) >= Len(pre) /\ SubSeq(s, 1, Len(pre)) = pre

\* the Exec class a line of the subprocess announces, "none" for other lines
ExecClassOfLine(line) ==
  IF StartsWith(line, <<"*">> \o C_running) THEN "running"
  ELSE IF StartsWith(line, <<"*">> \o C_stopped) THEN "stopped"
  ELSE "none"

\* (mutant) a worker that pushes out-of-band records on the result channel too
WorkerLineBroadcast ==
  /\ worker = "reading"
  /\ stdout # <<>>
  /\ \E r \in {ParseLine(Head(stdout))} :
     /\ stdout' = Tail(stdout)
     /\ result_output' =
          IF r.kind \in {"Result", "OutOfBand"}
          THEN Append(result_output, [class |-> r.class, payload |-> r.payload])
          ELSE result_output
     /\ oob_sink' = IF r.kind = "OutOfBand" THEN Append(oob_sink, r) ELSE oob_sink
     /\ log_sink' = IF r.kind = "Stream" THEN Append(log_sink, r) ELSE log_sink
     /\ is_running' = FlagAfter(r)
     /\ lastExec' = IF ExecClassOfLine(Head(stdout)) = "none" THEN lastExec
                    ELSE ExecClassOfLine(Head(stdout))
  /\ UNCHANGED <<worker, stdin, sigint>>
  /\ UNCHANGED callerVars
  /\ UNCHANGED gdbVars
  /\ UNCHANGED uiVars

\* (mutant) a worker that pushes stream records on the result channel too
WorkerLineStreamToChannel ==
  /\ worker = "reading"
  /\ stdout # <<>>
  /\ \E r \in {ParseLine(Head(stdout))} :
     /\ stdout' = Tail(stdout)
     /\ result_output' =
          IF r.kind \in {"Result", "Stream"}
          THEN Append(result_output, IF r.kind = "Stream"
                                      THEN [class |-> "Console", payload |-> r.text]
                                      ELSE [class |-> r.class, payload |-> r.payload])
          ELSE result_output
     /\ oob_sink' = IF r.kind = "OutOfBand" THEN Append(oob_sink, r) ELSE oob_sink
     /\ log_sink' = IF r.kind = "Stream" THEN Append(log_sink, r) ELSE log_sink
     /\ is_running' = FlagAfter(r)
     /\ lastExec' = IF ExecClassOfLine(Head(stdout)) = "none" THEN lastExec
                    ELSE ExecClassOfLine(Head(stdout))
  /\ UNCHANGED <<worker, stdin, sigint>>
  /\ UNCHANGED callerVars
  /\ UNCHANGED gdbVars
  /\ UNCHANGED uiVars

\* (mutant) a worker that a malformed line ends
WorkerLineStopsOnError ==
  /\ worker = "reading"
  /\ stdout # <<>>
  /\ \E r \in {ParseLine(Head(stdout))} :
     /\ stdout' = Tail(stdout)
     /\ result_output' =
          IF r.kind = "Result"
          THEN Append(result_output, [class |-> r.class, payload |-> r.payload])
          ELSE result_output
     /\ oob_sink' = IF r.kind = "OutOfBand" THEN Append(oob_sink, r) ELSE oob_sink
     /\ log_sink' = IF r.kind = "Stream" THEN Append(log_sink, r) ELSE log_sink
     /\ is_running' = FlagAfter(r)
     /\ lastExec' = IF ExecClassOfLine(Head(stdout)) = "none" THEN lastExec
                    ELSE ExecClassOfLine(Head(stdout))
     /\ worker' = IF r.kind = "ParseError" THEN "done" ELSE worker
  /\ UNCHANGED <<stdin, sigint>>
  /\ UNCHANGED callerVars
  /\ UNCHANGED gdbVars
  /\ UNCHANGED uiVars

\* read one line, parse it, dispatch the record
WorkerLine ==
  /\ worker = "reading"
  /\ stdout # <<>>
  /\ \E r \in {ParseLine(Head(stdout))} :
     /\ stdout' = Tail(stdout)
     /\ result_output' =
          IF r.kind = "Result"
          THEN Append(result_output, [class |-> r.class, payload |-> r.payload])
          ELSE result_output
     /\ oob_sink' = IF r.kind = "OutOfBand" THEN Append(oob_sink, r) ELSE oob_sink
     /\ log_sink' = IF r.kind = "Stream" THEN Append(log_sink, r) ELSE log_sink
     /\ is_running' = FlagAfter(r)
     /\ lastExec' = IF ExecClassOfLine(Head(stdout)) = "none" THEN lastExec
                    ELSE ExecClassOfLine(Head(stdout))
  /\ UNCHANGED <<worker, stdin, sigint>>
  /\ UNCHANGED callerVars
  /\ UNCHANGED gdbVars
  /\ UNCHANGED uiVars

\* the thread's closure returns: result_input, moved into it, is dropped,
\* which disconnects the channel
WorkerReturn ==
  /\ worker' = "done"
  /\ UNCHANGED <<is_running, result_output, oob_sink, log_sink, lastExec>>
  /\ UNCHANGED <<stdin, stdout, sigint>>
  /\ UNCHANGED callerVars
  /\ UNCHANGED gdbVars
  /\ UNCHANGED uiVars

\* end of file on the output pipe: the loop ends
WorkerEof ==
  /\ worker = "reading"
  /\ stdout = <<>>
  /\ gdb = "exited"
  /\ WorkerReturn

\* a failed read (an I/O error, bytes that are not UTF-8): the loop ends
WorkerReadFail ==
  /\ worker = "reading"
  /\ gdb = "alive"
  /\ WorkerReturn

(***************************************************************************)
(* The gdb subprocess.                                                     *)
(***************************************************************************)
\* gdb reads one command and answers it with one result record
GdbReply ==
  /\ gdb = "alive"
  /\ stdin # <<>>
  /\ Len(stdout) < MaxPipe
  /\ stdin' = Tail(stdin)
  /\ stdout' = Append(stdout, DoneLine(GdbEval(Head(stdin))))
  /\ UNCHANGED <<sigint>>
  /\ UNCHANGED gdbVars
  /\ UNCHANGED callerVars
  /\ UNCHANGED workerVars
  /\ UNCHANGED uiVars

\* the debuggee starts or stops: *running / *stopped
GdbExec ==
  /\ gdb = "alive"
  /\ nExec < MaxExec
  /\ Len(stdout) < MaxPipe
  /\ debuggee' = ~debuggee
  /\ nExec' = nExec + 1
  /\ stdout' = Append(stdout, IF debuggee THEN StoppedLine ELSE RunningLine)
  /\ sigint' = IF debuggee THEN FALSE ELSE sigint
  /\ UNCHANGED <<gdb, nNoise, stdin, script>>
  /\ UNCHANGED callerVars
  /\ UNCHANGED workerVars
  /\ UNCHANGED uiVars

\* console output, or a line that is not of the grammar
GdbNoise ==
  /\ gdb = "alive"
  /\ nNoise < MaxNoise
  /\ Len(stdout) < MaxPipe
  /\ \E line \in {StreamLine, BadLine} : stdout' = Append(stdout, line)
  /\ nNoise' = nNoise + 1
  /\ UNCHANGED <<gdb, debuggee, nExec, stdin, sigint, script>>
  /\ UNCHANGED callerVars
  /\ UNCHANGED workerVars
  /\ UNCHANGED uiVars

\* gdb exits: both its pipe ends close; output already written stays readable
GdbExit ==
  /\ gdb = "alive"
  /\ gdb' = "exited"
  /\ stdin' = <<>>
  /\ debuggee' = FALSE
  /\ sigint' = FALSE
  /\ UNCHANGED <<nExec, nNoise, stdout, script>>
  /\ UNCHANGED callerVars
  /\ UNCHANGED workerVars
  /\ UNCHANGED uiVars

\* a scripted subprocess emits the next line of its script
GdbScript ==
  /\ gdb = "alive"
  /\ script # <<>>
  /\ Len(stdout) < MaxPipe
  /\ stdout' = Append(stdout, Head(script))
  /\ script' = Tail(script)
  /\ debuggee' = IF ExecClassOfLine(Head(script)) = "running" THEN TRUE
                 ELSE IF ExecClassOfLine(Head(script)) = "stopped" THEN FALSE
                 ELSE debuggee
  /\ UNCHANGED <<gdb, nExec, nNoise, stdin, sigint>>
  /\ UNCHANGED callerVars
  /\ UNCHANGED workerVars
  /\ UNCHANGED uiVars

Next ==
  \/ ExecuteCheck
  \/ ExecuteWrite
  \/ ExecuteRecv
  \/ ExecuteLaterWrite
  \/ ExecuteLaterRecv
  \/ IsRunning
  \/ InterruptExecution
  \/ WorkerLine
  \/ WorkerEof
  \/ WorkerReadFail
  \/ GdbReply
  \/ GdbExec
  \/ GdbNoise
  \/ GdbExit

Spec == Init /\ [][Next]_vars

(***************************************************************************)
(* The same system under fair scheduling of its two threads: the worker,   *)
(* blocked in a read, returns from it at end of file, and a caller blocked *)
(* in recv() wakes when the channel has a record or is disconnected.       *)
(***************************************************************************)
FairSpec ==
  /\ Spec
  /\ WF_vars(WorkerEof)
  /\ WF_vars(ExecuteRecv)

(***************************************************************************)
(* Scenario A: a subprocess that emits three scripted lines and answers    *)
(* no command.                                                             *)
(***************************************************************************)
ScenarioA == <<RunningLine, StoppedLine, DoneLine(<<"4", "2">>)>>

InitA ==
  /\ is_running = SpawnFlag
  /\ result_output = <<>>
  /\ worker = "reading"
  /\ gdb = "alive"
  /\ stdin = <<>>
  /\ stdout = <<>>
  /\ debuggee = FALSE
  /\ sigint = FALSE
  /\ pc = "ready"
  /\ call = NoCall
  /\ ret = Return("None")
  /\ nWritten = 0
  /\ nExec = 0
  /\ nNoise = 0
  /\ oob_sink = <<>>
  /\ log_sink = <<>>
  /\ lastExec = "none"
  /\ script = ScenarioA
  /\ UiInit

NextA ==
  \/ ExecuteCheck
  \/ ExecuteWrite
  \/ ExecuteRecv
  \/ IsRunning
  \/ WorkerLine
  \/ GdbScript

SpecA == InitA /\ [][NextA]_vars

(***************************************************************************)
(* Helpers of the properties.                                              *)
(***************************************************************************)
\* the result record that answers command k, as the worker parses it
ReplyRecord(k) ==
  [class |-> "Done", payload |-> << <<K_value, Str(<<DigitChar(k)>>)>> >>]

\* the result lines among the lines ls
RECURSIVE ResultLines(_)
ResultLines(ls) ==
  IF ls = <<>> THEN 0
  ELSE (IF ParseLine(Head(ls)).kind = "Result" THEN 1 ELSE 0)
         + ResultLines(Tail(ls))

\* commands written whose reply the caller has not taken: unread by gdb,
\* answered but unread by the worker, or queued on the channel
InFlight == Len(stdin) + ResultLines(stdout) + Len(result_output)

\* the caller's last call was a completed call of kind op
Returned(op) == pc = "ready" /\ call.op = op

(***************************************************************************)
(* Properties.                                                             *)
(***************************************************************************)
\* C1: an execute() that finds ExecutionState running returns Busy at once,
\* writes nothing to the subprocess input and takes nothing from the result
\* channel.
C1_BusyInvariant ==
  (call.op = "execute" /\ call.flag) =>
    /\ pc = "ready"
    /\ ret = Busy
    /\ call.wrote = 0
    /\ nWritten = call.w0
    /\ call.took = 0

C1_Witness == call.op = "execute" /\ call.flag /\ ret = Busy /\ call.w0 >= 1

\* C2: against a subprocess that answers every command with one result
\* record, in command order, an execute() that returns a record returns the
\* reply to the command it wrote itself, whatever the interleaving of caller
\* and worker.
C2_FifoMatching ==
  (Returned("execute") /\ ret.tag = "Ok") =>
    /\ call.wrote = 1
    /\ ret.v = ReplyRecord(call.cmd)

C2_Witness ==
  Returned("execute") /\ ret.tag = "Ok" /\ call.cmd = 3 /\ call.prev = "execute"

\* C3: an execute() blocked on an empty result channel when the output
\* stream is at end of file, or after a read failed, eventually returns Quit.
C3_PendingQuit ==
  (/\ pc = "recv"
   /\ call.op = "execute"
   /\ result_output = <<>>
   /\ \/ worker = "done"
      \/ gdb = "exited" /\ stdout = <<>>)
  ~> (Returned("execute") /\ ret = Quit)

C3_Witness ==
  /\ Returned("execute")
  /\ ret = Quit
  /\ ~call.dead
  /\ call.wrote = 1
  /\ gdb = "exited"

\* C4 (as claimed): an execute() called after the output pipe reached end of
\* file, with the result channel closed and drained, returns Quit: never
\* Busy, never a panic, never a result.
C4_QuitAfterEof ==
  (call.op = "execute" /\ call.eof /\ call.dead) =>
    \/ pc \in {"write", "recv"}
    \/ pc = "ready" /\ ret = Quit

\* C5 (as claimed): on both write paths, execute and execute_later, no
\* command is written in a state where ExecutionState is running.
C5_NoWriteWhileRunning ==
  (call.op \in {"execute", "execute_later"} /\ call.wrote >= 1) => ~call.wflag

C7_AdmissionFollowsDebuggee ==
  (call.op = "execute" /\ call.d0 /\ call.wrote >= 1) => ~call.debuggee

\* C8: ExecutionState is idle until the worker has processed an Exec record,
\* and from then on running iff the last Exec record it processed was
\* *running; no step of the caller changes it.
C8_FlagFollowsWorker ==
  /\ [](is_running <=> lastExec = "running")
  /\ [][is_running' # is_running => (stdout' = Tail(stdout) /\ UNCHANGED callerVars)]_vars

C8_Witness ==
  /\ lastExec = "running"
  /\ is_running
  /\ Returned("execute_later")
  /\ call.prev = "interrupt"

\* C9: Scenario A.  Once the worker has processed *running alone, execute()
\* returns Busy and writes nothing; once it has processed *stopped too, the
\* flag is clear, is_running() returns false, and the first execute() that
\* writes a command returns the Done record with payload {value: "42"}.
C9_ScenarioA ==
  /\ Len(oob_sink) = 1 => is_running
  /\ (call.op = "execute" /\ call.oob = 1) =>
       (pc = "ready" /\ ret = Busy /\ nWritten = call.w0)
  /\ Len(oob_sink) = 2 => ~is_running
  /\ (Returned("is_running") /\ call.oob = 2) => ret.b = FALSE
  /\ (Returned("execute") /\ call.oob = 2 /\ call.w0 = 0) =>
       ret = Ok([class |-> "Done",
                 payload |-> << <<K_value, Str(<<"4", "2">>)>> >>])

C9_Witness ==
  /\ Returned("execute")
  /\ call.oob = 2
  /\ call.w0 = 0
  /\ call.prev = "is_running"
  /\ ret.tag = "Ok"

\* C10: an execute_later() that returns has written exactly one command and
\* taken exactly one record from the channel (none only if the channel was
\* closed and empty); no reply to its command is left on the channel, and an
\* execute() that follows it and returns a record returns its own reply.
C10_ExecuteLaterPaired ==
  /\ [](Returned("execute_later") =>
          /\ call.wrote = 1
          /\ nWritten = call.w0 + 1
          /\ call.took <= 1
          /\ call.took = 0 => (worker = "done" /\ result_output = <<>>)
          /\ \A i \in 1..Len(result_output) :
               result_output[i] # ReplyRecord(call.cmd))
  /\ []((Returned("execute") /\ call.prev = "execute_later" /\ ret.tag = "Ok")
          => ret.v = ReplyRecord(call.cmd))
  /\ [][(pc = "recv" /\ call.op = "execute_later" /\ pc' = "ready") =>
          IF result_output # <<>>
          THEN result_output' = Tail(result_output)
          ELSE worker = "done" /\ result_output' = <<>>]_vars

C10_Witness ==
  /\ Returned("execute")
  /\ call.prev = "execute_later"
  /\ ret.tag = "Ok"
  /\ call.cmd = 2

\* C11 (as claimed): a write of the command that fails is an I/O error
\* outcome of that execute / execute_later call: the caller is not aborted,
\* the call returns without waiting on the result channel, and the session
\* goes on.
C11_WriteFailureSurfaced ==
  (call.op \in {"execute", "execute_later"} /\ call.wrote = 0 /\ ~call.flag) =>
    pc \in {"ready", "write"}

\* the step is a call of interrupt_execution
InterruptStep ==
  \/ call' # call /\ call'.op = "interrupt"
  \/ ~sigint /\ sigint'

\* C12: interrupt() does not unblock an execute() that is past the busy
\* check: the call leaves recv() only by taking a record from the channel or
\* on a closed channel, also when the records of the interrupted debugger
\* (its *stopped) have been dispatched meanwhile; and a call of interrupt()
\* changes neither the result channel nor ExecutionState.
C12_InterruptDoesNotUnblock ==
  /\ [][(pc = "recv" /\ call.op = "execute" /\ pc' # "recv") =>
          \/ result_output # <<>> /\ result_output' = Tail(result_output)
                                  /\ ret' = Ok(Head(result_output))
          \/ result_output = <<>> /\ worker = "done" /\ ret' = Quit]_vars
  /\ [][InterruptStep => UNCHANGED <<result_output, is_running, worker, pc>>]_vars

\* an execute() still blocked after the interrupt sent before it made gdb
\* emit *stopped and the worker dispatched that record
C12_Witness ==
  /\ pc = "recv"
  /\ call.op = "execute"
  /\ call.prev = "interrupt"
  /\ lastExec = "stopped"
  /\ call.oob < Len(oob_sink)
  /\ result_output = <<>>
  /\ worker = "reading"

\* C14: an interrupt() whose kill fails returns the error and does nothing
\* else: the flag, the result channel, the writer into the subprocess, the
\* worker and the subprocess are as before it, and the caller is ready for
\* its next call, which therefore goes as it would have gone without it.
C14_FailedInterruptNonFatal ==
  /\ [][(InterruptStep /\ ret'.tag = "SignalError") =>
          /\ pc = "ready" /\ pc' = "ready"
          /\ UNCHANGED <<nWritten, stdin, stdout, sigint>>
          /\ UNCHANGED workerVars
          /\ UNCHANGED gdbVars]_vars
  /\ []((call.op = "interrupt" /\ call.eof) => pc = "ready")
  /\ []((call.op = "interrupt" /\ pc = "ready")
          => ret.tag \in {"Unit", "SignalError"})

\* a failed interrupt() with the flag set, the worker reading and a line
\* of gdb still unread
C14_Witness ==
  /\ Returned("interrupt")
  /\ ret.tag = "SignalError"
  /\ is_running
  /\ worker = "reading"
  /\ stdout # <<>>

(***************************************************************************)
(* A caller that retries execute() after Busy and interrupts the debugger, *)
(* against a gdb that stays alive, starts the debuggee once and stops it   *)
(* when the interrupt signal arrives, and a worker that goes on reading.   *)
(***************************************************************************)
\* the debuggee starts: *running
GdbRun ==
  /\ ~debuggee
  /\ nExec = 0
  /\ GdbExec

\* gdb, signalled, stops the debuggee: *stopped
GdbInterrupted ==
  /\ debuggee
  /\ sigint
  /\ GdbExec

NextRetry ==
  \/ ExecuteCheck
  \/ ExecuteWrite
  \/ ExecuteRecv
  \/ IsRunning
  \/ InterruptExecution
  \/ WorkerLine
  \/ GdbReply
  \/ GdbNoise
  \/ GdbRun
  \/ GdbInterrupted

\* fair scheduling of the worker, and a caller that goes on calling execute
SpecRetry ==
  /\ Init
  /\ [][NextRetry]_vars
  /\ WF_vars(WorkerLine)
  /\ WF_vars(ExecuteCheck)
  /\ WF_vars(ExecuteWrite)

\* the line is among the lines ls
RECURSIVE Among(_, _)
Among(line, ls) ==
  IF ls = <<>> THEN FALSE
  ELSE Head(ls) = line \/ Among(line, Tail(ls))

\* C13: once the flag is set, the caller is between calls (any execute() it
\* makes now is refused as Busy), and gdb has answered the interrupt with
\* *stopped, then under fair scheduling of the worker the retrying caller
\* eventually is in an execute() that passed the busy check and wrote its
\* command.
C13_RetryAfterInterrupt ==
  (/\ is_running
   /\ pc = "ready"
   /\ nWritten < MaxCmds
   /\ Among(StoppedLine, stdout))
  ~> (/\ pc = "recv"
      /\ call.op = "execute"
      /\ ~call.flag
      /\ call.wrote = 1
      /\ lastExec = "stopped")

\* the retry that got through: refused calls and the interrupt came first
C13_Witness ==
  /\ pc = "recv"
  /\ call.op = "execute"
  /\ call.prev = "execute"
  /\ ~call.flag
  /\ call.wrote = 1
  /\ call.oob = 2
  /\ lastExec = "stopped"
  /\ ret = Busy

(***************************************************************************)
(* Resynchronisation: a subprocess that emits up to MaxGood well-formed    *)
(* lines, one malformed line, and up to MaxGood well-formed lines, and the *)
(* worker reading them; nobody takes records from the channel.             *)
(***************************************************************************)
\* ?x   (no class prefix: not a line of the grammar)
BadPrefixLine == <<"?", "x">>

GoodLines == {RunningLine, StoppedLine, DoneLine(<<"7">>), StreamLine}

MalformedLines == {BadLine, BadPrefixLine}

\* the sequences of at most n lines of the set
RECURSIVE SeqsUpTo(_, _)
SeqsUpTo(set, n) ==
  IF n = 0 THEN {<<>>}
  ELSE SeqsUpTo(set, n - 1)
         \cup {Append(s, x) : s \in SeqsUpTo(set, n - 1), x \in set}

ResyncScripts ==
  {pre \o <<bad>> \o post : pre \in SeqsUpTo(GoodLines, MaxGood),
                            bad \in MalformedLines,
                            post \in SeqsUpTo(GoodLines, MaxGood)}

InitResync ==
  /\ is_running = SpawnFlag
  /\ result_output = <<>>
  /\ worker = "reading"
  /\ gdb = "alive"
  /\ stdin = <<>>
  /\ stdout = <<>>
  /\ debuggee = FALSE
  /\ sigint = FALSE
  /\ pc = "ready"
  /\ call = NoCall
  /\ ret = Return("None")
  /\ nWritten = 0
  /\ nExec = 0
  /\ nNoise = 0
  /\ oob_sink = <<>>
  /\ log_sink = <<>>
  /\ lastExec = "none"
  /\ script \in ResyncScripts
  /\ UiInit

NextResync ==
  \/ GdbScript
  \/ GdbExit
  \/ WorkerLine
  \/ WorkerEof

SpecResync == InitResync /\ [][NextResync]_vars

\* a result record as the channel carries it
AsResult(r) == [class |-> r.class, payload |-> r.payload]

\* the records of the lines ls that go to the destination of the kind, in
\* the order of the lines
RECURSIVE RecordsOf(_, _)
RecordsOf(ls, kind) ==
  IF ls = <<>> THEN <<>>
  ELSE Strict(ParseLine(Head(ls)), LAMBDA r :
         IF r.kind # kind THEN <<>>
         ELSE IF kind = "Result" THEN <<AsResult(r)>>
         ELSE <<r>>) \o RecordsOf(Tail(ls), kind)

\* what a destination has been given, followed by what the lines still to
\* come are to add to it
TotalOob == oob_sink \o RecordsOf(stdout \o script, "OutOfBand")

TotalLog == log_sink \o RecordsOf(stdout \o script, "Stream")

TotalResult == result_output \o RecordsOf(stdout \o script, "Result")

\* the records dispatched so far
Dispatched == Len(oob_sink) + Len(log_sink) + Len(result_output)

\* C15: of N well-formed lines, a malformed line and M well-formed lines the
\* worker dispatches one record for each well-formed line and none for the
\* malformed one (N + M in all); each destination gets the records of its
\* category in the order of the lines; the malformed line does not end the
\* worker, which stops only at end of file, and the lines after it are
\* dispatched as they would be without it.
C15_Resync ==
  /\ [][(stdout # <<>> /\ stdout' = Tail(stdout)) =>
          /\ Dispatched' = Dispatched + (IF Head(stdout) \in GoodLines THEN 1 ELSE 0)
          /\ worker' = "reading"]_vars
  /\ [][UNCHANGED <<TotalOob, TotalLog, TotalResult>>]_vars
  /\ [](worker = "done" => (gdb = "exited" /\ stdout = <<>>))
  /\ [](Dispatched <= 2 * MaxGood)

\* *running, a malformed line and *stopped all read: two records, in
\* order, at the sink and the flag clear again
C15_Witness ==
  /\ script = <<>>
  /\ stdout = <<>>
  /\ Len(oob_sink) = 2
  /\ oob_sink[1].class = C_running
  /\ ~is_running
  /\ worker = "reading"

\* the step is the worker's read of one line
WorkerStep == stdout # <<>> /\ stdout' = Tail(stdout)

\* C16: routing is exclusive.  The read of an out-of-band line passes its
\* record to the sink once, after the records before it, and pushes nothing
\* on the result channel; the read of a result line pushes its record on the
\* channel once, behind the records before it, and passes nothing to the
\* sink; the sink is called and the channel added to by steps of the worker
\* only; the sink never holds a result record nor the channel an
\* out-of-band one.
C16_ExclusiveRouting ==
  /\ [][WorkerStep =>
          \A r \in {ParseLine(Head(stdout))} :
            /\ r.kind = "OutOfBand" =>
                 /\ oob_sink' = Append(oob_sink, r)
                 /\ UNCHANGED <<result_output, log_sink>>
            /\ r.kind = "Result" =>
                 /\ result_output' = Append(result_output, AsResult(r))
                 /\ UNCHANGED <<oob_sink, log_sink>>
            /\ r.kind \notin {"OutOfBand", "Result"} =>
                 UNCHANGED <<oob_sink, result_output>>]_vars
  /\ [][(oob_sink' # oob_sink \/ Len(result_output') > Len(result_output)) =>
          (WorkerStep /\ UNCHANGED callerVars)]_vars
  /\ [](\A i \in 1..Len(oob_sink) : oob_sink[i].kind = "OutOfBand")
  /\ [](\A i \in 1..Len(result_output) :
          DOMAIN result_output[i] = {"class", "payload"})

\* the sink given *running and then *stopped, a result record on the
\* channel, the caller waiting for it
C16_Witness ==
  /\ Len(oob_sink) = 2
  /\ oob_sink[1].class = C_running
  /\ oob_sink[2].class = C_stopped
  /\ Len(result_output) = 1
  /\ pc = "recv"

\* C17: the read of a stream line adds its record to the log and does
\* nothing else: nothing is pushed on the result channel, the sink is not
\* called, the flag keeps its value; so what execute() returns, and what
\* execute_later() takes, is a result record, never a stream record, and a
\* call waiting in recv() goes on waiting.
C17_StreamsLoggedOnly ==
  /\ [][WorkerStep =>
          \A r \in {ParseLine(Head(stdout))} :
            IF r.kind = "Stream"
            THEN /\ log_sink' = Append(log_sink, r)
                 /\ UNCHANGED <<result_output, oob_sink, is_running, pc, ret>>
            ELSE UNCHANGED log_sink]_vars
  /\ [][log_sink' # log_sink => WorkerStep]_vars
  /\ [](\A i \in 1..Len(log_sink) : log_sink[i].kind = "Stream")
  /\ []((Returned("execute") /\ ret.tag = "Ok") =>
          /\ DOMAIN ret.v = {"class", "payload"}
          /\ ret.v.class \in {"Done", "Running", "Connected", "Error", "Exit"})

\* a stream record logged while an execute() waits for its reply on the
\* empty channel
C17_Witness ==
  /\ pc = "recv"
  /\ call.op = "execute"
  /\ log_sink # <<>>
  /\ nNoise = 1
  /\ call.wrote = 1
  /\ stdin # <<>>
  /\ stdout = <<>>
  /\ result_output = <<>>
  /\ worker = "reading"

\* C18: the result channel closes once, when the worker ends on a failed
\* read or at end of file, and the close takes nothing off the channel;
\* while the worker reads no execute() returns Quit; a record queued when
\* the channel closes is still handed, head first, to the call in recv(),
\* and Quit comes only from the closed and empty channel.
C18_ChannelClosesOnce ==
  /\ [][worker' # worker =>
          /\ worker = "reading" /\ worker' = "done"
          /\ gdb = "alive" \/ (gdb = "exited" /\ stdout = <<>>)
          /\ UNCHANGED <<result_output, stdout>>
          /\ UNCHANGED callerVars]_vars
  /\ []((Returned("execute") /\ ret = Quit) => worker = "done")
  /\ [][(pc = "recv" /\ call.op = "execute" /\ pc' = "ready") =>
          IF result_output # <<>>
          THEN ret' = Ok(Head(result_output)) /\ result_output' = Tail(result_output)
          ELSE worker = "done" /\ ret' = Quit]_vars
  /\ [][Len(result_output') > Len(result_output) => worker = "reading"]_vars

\* the channel closed with the reply to command 2 still queued and the
\* execute() that wrote it in recv()
C18_Witness ==
  /\ pc = "recv"
  /\ call.op = "execute"
  /\ worker = "done"
  /\ result_output = <<ReplyRecord(2)>>
  /\ call.cmd = 2

\* C19: no timeout.  An execute() that has written its command is in
\* recv() until it has taken one record from the channel, which it returns
\* as Ok, or the channel is closed and empty, which it returns as Quit;
\* with the channel open and empty nothing it can do returns, whatever the
\* worker dispatches to the sink or the log meanwhile.
C19_NoTimeout ==
  /\ []((pc = "recv" /\ call.op = "execute") => (call.wrote = 1 /\ call.took = 0))
  /\ []((pc = "recv" /\ call.op = "execute" /\ result_output = <<>>
            /\ worker = "reading") => ~ENABLED ExecuteRecv)
  /\ []((Returned("execute") /\ call.wrote = 1) =>
          \/ ret.tag = "Ok" /\ call.took = 1
          \/ ret = Quit /\ call.took = 0 /\ worker = "done")
  /\ [][(WorkerStep /\ Len(result_output') = Len(result_output)) =>
          UNCHANGED <<pc, ret, call>>]_vars

\* an execute() still waiting, gdb alive and not answering, after the
\* worker passed a record to the sink and logged a stream record
C19_Witness ==
  /\ pc = "recv"
  /\ call.op = "execute"
  /\ gdb = "alive"
  /\ stdin # <<>>
  /\ stdout = <<>>
  /\ result_output = <<>>
  /\ worker = "reading"
  /\ Len(oob_sink) > call.oob
  /\ log_sink # <<>>

\* the step is a call of is_running
IsRunningStep == call'.op = "is_running" /\ <<call, ret>>' # <<call, ret>>

\* C20: is_running() can be called whenever the caller is between calls, at
\* once returns the value the flag has, and changes neither the flag nor the
\* result channel nor the subprocess input, whatever the worker is about to
\* do to the flag.
C20_IsRunningPureRead ==
  /\ [][IsRunningStep =>
          /\ ret' = [tag |-> "Bool", v |-> NoRecord, b |-> is_running]
          /\ pc' = "ready"
          /\ UNCHANGED <<is_running, result_output, stdin, stdout, nWritten>>]_vars
  /\ [](pc = "ready" => ENABLED IsRunning)
  /\ [](Returned("is_running") => (ret.tag = "Bool" /\ ret.b = call.flag))

\* is_running() returned true with *stopped in the pipe, and the worker
\* has since cleared the flag
C20_Witness ==
  /\ Returned("is_running")
  /\ ret.b
  /\ ~is_running
  /\ lastExec = "stopped"
  /\ worker = "reading"

(***************************************************************************)
(* Values: a scripted subprocess that emits up to MaxLines result lines    *)
(* ^done,value=<value text>, the worker parsing them, and a caller whose   *)
(* execute() calls take the records.                                       *)
(***************************************************************************)
\* {a="1",b=[1,2,3]}
ScenarioBText ==
  <<"{", "a", "=", QUOTE, "1", QUOTE, ",", "b", "=", "[", "1", ",", "2", ",",
    "3", "]", "}">>

\* [a=1,"2"]
MixedListText == <<"[", "a", "=", "1", ",", QUOTE, "2", QUOTE, "]">>

ValueTexts == {ScenarioBText, MixedListText, <<"{", "}">>, <<"7">>}

\* ^done,value=<text>
ValueLine(text) == <<"^">> \o C_done \o <<",">> \o K_value \o <<"=">> \o text

ValueScripts == SeqsUpTo({ValueLine(t) : t \in ValueTexts}, MaxLines)

InitB ==
  /\ is_running = SpawnFlag
  /\ result_output = <<>>
  /\ worker = "reading"
  /\ gdb = "alive"
  /\ stdin = <<>>
  /\ stdout = <<>>
  /\ debuggee = FALSE
  /\ sigint = FALSE
  /\ pc = "ready"
  /\ call = NoCall
  /\ ret = Return("None")
  /\ nWritten = 0
  /\ nExec = 0
  /\ nNoise = 0
  /\ oob_sink = <<>>
  /\ log_sink = <<>>
  /\ lastExec = "none"
  /\ script \in ValueScripts
  /\ UiInit

NextB ==
  \/ GdbScript
  \/ WorkerLine
  \/ ExecuteCheck
  \/ ExecuteWrite
  \/ ExecuteRecv

SpecB == InitB /\ [][NextB]_vars

\* Map{a: "1", b: List["1", "2", "3"]}
ScenarioBValue ==
  [t |-> "Map",
   m |-> << <<(<<"a">>), [t |-> "String", s |-> <<"1">>]>>,
            <<(<<"b">>), [t |-> "List",
                          l |-> <<[t |-> "String", s |-> <<"1">>],
                                  [t |-> "String", s |-> <<"2">>],
                                  [t |-> "String", s |-> <<"3">>]>>]>> >>]

\* List["1", "2"]
MixedListValue ==
  [t |-> "List", l |-> <<[t |-> "String", s |-> <<"1">>],
                         [t |-> "String", s |-> <<"2">>]>>]

\* the result record of the line ^done,value=<text of v>
ValueRecord(v) == [class |-> "Done", payload |-> << <<K_value, v>> >>]

\* C21: Scenario B.  The line whose value is {a="1",b=[1,2,3]} is parsed to
\* the record whose value is the Map of a to the string "1" and of b to the
\* List of the texts "1", "2", "3" in that order, the bare tokens kept as
\* text; and every record an execute() returns is the record of one of the
\* scripted values.
C21_ScenarioB ==
  /\ [][(WorkerStep /\ Head(stdout) = ValueLine(ScenarioBText)) =>
          result_output' = Append(result_output, ValueRecord(ScenarioBValue))]_vars
  /\ []((Returned("execute") /\ ret.tag = "Ok") =>
          ret.v \in {ValueRecord(ScenarioBValue), ValueRecord(MixedListValue),
                     ValueRecord([t |-> "Map", m |-> <<>>]),
                     ValueRecord([t |-> "String", s |-> <<"7">>])})

\* an execute() that returned the record of Scenario B's line
C21_Witness ==
  /\ Returned("execute")
  /\ ret = Ok(ValueRecord(ScenarioBValue))

(***************************************************************************)
(* Round trip: a subprocess that echoes one serialized command line on its *)
(* output, and the worker reading that line.                               *)
(***************************************************************************)
ParamTexts ==
  {<<"1">>, <<QUOTE, "a">>, <<BACKSLASH, "n">>, <<"\n", " ", "\t">>}

\* --x
F_x == <<"-", "-", "x">>

OptionLists ==
  {<<>>, <<[flag |-> F_x, has |-> FALSE, value |-> <<>>]>>,
   <<[flag |-> F_x, has |-> TRUE, value |-> <<"1">>]>>}

RoundTripCommands ==
  {[operation |-> OP_evaluate, parameters |-> ps, options |-> os] :
     ps \in SeqsUpTo(ParamTexts, MaxParams), os \in OptionLists}

InitRT ==
  /\ is_running = SpawnFlag
  /\ result_output = <<>>
  /\ worker = "reading"
  /\ gdb = "alive"
  /\ stdin = <<>>
  /\ stdout = <<>>
  /\ debuggee = FALSE
  /\ sigint = FALSE
  /\ pc = "ready"
  /\ call = NoCall
  /\ ret = Return("None")
  /\ nWritten = 0
  /\ nExec = 0
  /\ nNoise = 0
  /\ oob_sink = <<>>
  /\ log_sink = <<>>
  /\ lastExec = "none"
  /\ \E c \in RoundTripCommands : script = <<write_interpreter_string(c)>>
  /\ UiInit

NextRT ==
  \/ GdbScript
  \/ WorkerLine

SpecRT == InitRT /\ [][NextRT]_vars

\* the quoted parameters of a serialized command line from position i on,
\* each read with the grammar's rule for string literals
RECURSIVE ReadQuoted(_, _, _)
ReadQuoted(line, i, acc) ==
  IF At(line, i) = " " /\ At(line, i + 1) = QUOTE
  THEN Strict(ParseString(line, i + 1), LAMBDA r :
         IF r.ok THEN ReadQuoted(line, r.i, Append(acc, r.v)) ELSE acc)
  ELSE acc

\* the parameters read back from a serialized command line
ReadParameters(line) ==
  ReadQuoted(line, SkipWhile(line, 2, IdentChars \cup {"-"}), <<>>)

\* the values of a payload, in order
PayloadValues(payload) == [i \in 1..Len(payload) |-> payload[i][2]]

\* the parameters as the values a payload would hold for them
ParameterValues(ps) == [i \in 1..Len(ps) |-> Str(ps[i])]

NODE_START_CHARS == <<"c", "t", "s", "e", "(">>
CLOSING_BRACKET_CHARS == <<")">>

\* enum LayoutParseError
TooShortExpected(chars) == [tag |-> "TooShortExpected", chars |-> chars]
ExpectedGotMany(index, chars, c) ==
  [tag |-> "ExpectedGotMany", index |-> index, chars |-> chars, got |-> c]
SplitTypeChangeFromTo(index, from, to) ==
  [tag |-> "SplitTypeChangeFromTo", index |-> index, from |-> from, to |-> to]

\* the outcomes of parse: Ok(layout), Err(error), or a panic of the thread
LayoutOk(node, pos) == [kind |-> "Ok", node |-> node, pos |-> pos]
LayoutErr(e) == [kind |-> "Err", err |-> e]
LayoutPanic == [kind |-> "Panic"]

\* Peekable::peek on the remaining characters: the character at position
\* p of the text, NoChar (Option::None) at its end
NoChar == "None"
current(s, p) == IF p <= Len(s) THEN s[p] ELSE NoChar

\* the length of a character's UTF-8 encoding; char_indices counts bytes
Utf8Len(c) == IF c = "é" THEN 2 ELSE 1

\* Input::current_index: the byte offset of the character at position p
RECURSIVE current_index(_, _)
current_index(s, p) ==
  IF p <= 1 THEN 0 ELSE current_index(s, p - 1) + Utf8Len(s[p - 1])

\* char::to_digit(10)
to_digit(c) ==
  CASE c = "0" -> 0 [] c = "1" -> 1 [] c = "2" -> 2 [] c = "3" -> 3
    [] c = "4" -> 4 [] c = "5" -> 5 [] c = "6" -> 6 [] c = "7" -> 7
    [] c = "8" -> 8 [] c = "9" -> 9

\* a u32, kept as two 16-bit halves (value = hi * 2^16 + lo)
Half == 65536
U32(n) == [hi |-> n \div Half, lo |-> n % Half]

\* w * 10 + d in u32 arithmetic: the wrapped result and whether the
\* mathematical result left the 32 bits
MulAddU32(w, d) ==
  LET lo == w.lo * 10 + d
      hi == w.hi * 10 + (lo \div Half)
  IN  [w |-> [hi |-> hi % Half, lo |-> lo % Half], overflow |-> hi >= Half]

\* how the build treats integer overflow: a panic where overflow checks
\* are compiled in (debug profile), wrapping where they are not (release)
Builds == {"checked", "wrapping"}

RECURSIVE weight_digits(_, _, _, _)

\* try_parse_weight: 1 when no digit is next, otherwise the digits read
\* into a u32 accumulator; pos is the position of the first non-digit
try_parse_weight(s, p, build) ==
  IF current(s, p) \notin Digits
  THEN [w |-> U32(1), pos |-> p, panic |-> FALSE]
  ELSE weight_digits(s, p, U32(0), build)

\* the loop of try_parse_weight
weight_digits(s, p, w, build) ==
  IF current(s, p) \notin Digits
  THEN [w |-> w, pos |-> p, panic |-> FALSE]
  ELSE Strict(MulAddU32(w, to_digit(current(s, p))), LAMBDA n :
         IF n.overflow /\ build = "checked"
         THEN [w |-> w, pos |-> p, panic |-> TRUE]
         ELSE weight_digits(s, p + 1, n.w, build))

\* try_parse_leaf: the container a leaf character names, if it is one
LeafChars == {"c", "t", "s", "e"}
Leaf(c) ==
  [kind |-> CASE c = "c" -> "Console" [] c = "t" -> "Terminal"
              [] c = "s" -> "SrcView" [] c = "e" -> "ExpressionTable"]

\* the end of parse_node: the split of the children collected, or the
\* only child itself when no separator was seen
parse_node_end(nodes, split_type, p) ==
  CASE split_type = "H" -> LayoutOk([kind |-> "HSplit", children |-> nodes], p)
    [] split_type = "V" -> LayoutOk([kind |-> "VSplit", children |-> nodes], p)
    [] split_type = "None" ->
         IF Len(nodes) = 1 THEN LayoutOk(nodes[1].node, p) ELSE LayoutPanic

\* the error of parse_node when the character after a nested node is not
\* ')': the character and its index, or the end of the input
closing_error(s, p) ==
  IF current(s, p) # NoChar
  THEN ExpectedGotMany(current_index(s, p), CLOSING_BRACKET_CHARS, current(s, p))
  ELSE TooShortExpected(CLOSING_BRACKET_CHARS)

\* the error of parse_node when neither a leaf nor '(' is next: the
\* character and its index, or the end of the input
node_start_error(s, p) ==
  IF current(s, p) # NoChar
  THEN ExpectedGotMany(current_index(s, p), NODE_START_CHARS, current(s, p))
  ELSE TooShortExpected(NODE_START_CHARS)

RECURSIVE parse_node_loop(_, _, _, _, _)
RECURSIVE parse_node_sep(_, _, _, _, _)

\* the second half of the loop of parse_node: after a child, the end of
\* the input or a character that is no separator ends the node; a
\* separator must agree with the split type so far
parse_node_sep(s, p, nodes, split_type, build) ==
  LET c == current(s, p) IN
  IF c = NoChar THEN parse_node_end(nodes, split_type, p)
  ELSE IF c = "|"
  THEN IF split_type = "V"
       THEN LayoutErr(SplitTypeChangeFromTo(current_index(s, p), "-", "|"))
       ELSE parse_node_loop(s, p + 1, nodes, "H", build)
  ELSE IF c = "-"
  THEN IF split_type = "H"
       THEN LayoutErr(SplitTypeChangeFromTo(current_index(s, p), "|", "-"))
       ELSE parse_node_loop(s, p + 1, nodes, "V", build)
  ELSE parse_node_end(nodes, split_type, p)

\* the first half of the loop of parse_node: a weight, then a leaf or a
\* parenthesised node, pushed with the weight
parse_node_loop(s, p, nodes, split_type, build) ==
  Strict(try_parse_weight(s, p, build), LAMBDA w :
    IF w.panic THEN LayoutPanic
    ELSE LET c == current(s, w.pos) IN
      IF c \in LeafChars
      THEN parse_node_sep(s, w.pos + 1,
             Append(nodes, [node |-> Leaf(c), weight |-> w.w]),
             split_type, build)
      ELSE IF c = "("
      THEN Strict(parse_node_loop(s, w.pos + 1, <<>>, "None", build), LAMBDA r :
             IF r.kind # "Ok" THEN r
             ELSE LET o == current(s, r.pos) IN
               IF o = ")"
               THEN parse_node_sep(s, r.pos + 1,
                      Append(nodes, [node |-> r.node, weight |-> w.w]),
                      split_type, build)
               ELSE LayoutErr(closing_error(s, r.pos)))
      ELSE LayoutErr(node_start_error(s, w.pos)))

\* parse_node: the loop started with no children and no split type
parse_node(s, p, build) == parse_node_loop(s, p, <<>>, "None", build)

\* what parse hands to its caller: the position reached in the input is
\* dropped with the Input
ParseReturn(r) == IF r.kind = "Ok" THEN [kind |-> "Ok", node |-> r.node] ELSE r

\* parse: Input::new fails on the empty string, then parse_node
parse(s, build) ==
  IF current(s, 1) = NoChar
  THEN LayoutErr(TooShortExpected(NODE_START_CHARS))
  ELSE ParseReturn(parse_node(s, 1, build))

\* the session as GDB::spawn leaves it, with no scripted output
SessionInit ==
  /\ is_running = SpawnFlag
  /\ result_output = <<>>
  /\ worker = "reading"
  /\ gdb = "alive"
  /\ stdin = <<>>
  /\ stdout = <<>>
  /\ debuggee = FALSE
  /\ sigint = FALSE
  /\ pc = "ready"
  /\ call = NoCall
  /\ ret = Return("None")
  /\ nWritten = 0
  /\ nExec = 0
  /\ nNoise = 0
  /\ oob_sink = <<>>
  /\ log_sink = <<>>
  /\ lastExec = "none"
  /\ script = <<>>

\* the characters of the enumerated layout strings: two leaves, the
\* brackets, both separators, a digit, and a character of no meaning
LayoutChars == {"s", "e", "(", ")", "|", "-", "2", "é"}

\* the inputs of the tests of layout.rs: parse_default,
\* parse_triple_weighted, parse_unclosed, parse_unexpected and
\* parse_change_split (parse_empty is the string of length 0)
TestInputs ==
  { <<"(", "1", "s", "-", "1", "c", ")", "|", "(", "1", "e", "-", "1", "t", ")">>,
    <<"(", "s", "|", "2", "t", "|", "c", ")", "-", "9", "9", "e">>,
    <<"(", "c", "-", "e">>,
    <<"f">>,
    <<"s", "-", "e", "|", "t">> }

\* longer inputs: a split changing inside a nested node, a character of
\* no meaning after a nested node, and weights of ten digits, which do
\* not fit the u32 of try_parse_weight, before a well-formed rest, a
\* change of split, the end of the input and a character of no meaning
NestedChange ==
  <<"(", "s", "|", "e", ")", "-", "(", "c", "-", "t", "|", "s", ")">>
NestedUnexpected == <<"2", "(", "s", "-", "(", "e", "|", "c", ")", "é", ")">>
TenDigits == <<"4", "2", "9", "4", "9", "6", "7", "2", "9", "7">>
LongWeight == TenDigits \o <<"s", "|", "c">>
LongWeightChange == TenDigits \o <<"s", "-", "e", "|", "t">>
LongWeightEnd == <<"s", "|">> \o TenDigits
LongWeightUnexpected == TenDigits \o <<"é">>

LayoutInputs ==
  SeqsUpTo(LayoutChars, MaxInput) \cup
    TestInputs \cup
      {NestedChange, NestedUnexpected, LongWeight, LongWeightChange,
       LongWeightEnd, LongWeightUnexpected}

InitLayout ==
  /\ SessionInit
  /\ \E s \in LayoutInputs : layout = [LayoutIdle EXCEPT !.input = s]
  /\ win = CodeWindowNew
  /\ sw = SwitchIdle

\* layout::parse applied to the input, by either build
Parse ==
  /\ ~layout.done
  /\ \E build \in Builds :
       layout' = [layout EXCEPT !.done = TRUE,
                                !.result = parse(layout.input, build)]
  /\ UNCHANGED <<sessionVars, win, sw>>

NextLayout == Parse

SpecLayout == InitLayout /\ [][NextLayout]_vars

\* ---------------------------------------------------------------------
\* The layout grammar read as a scanner: what the text requires at each
\* position.  mode is "node" where a node must start, "weight" after the
\* digits of a weight (a node must still start), "after" behind a
\* complete node; stack holds the separator of every open node, "none"
\* while it has none, the innermost last.  The result names the first
\* position where the text stops being a layout, and why.
\* ---------------------------------------------------------------------
Finding(what, at, from, to) ==
  [what |-> what, at |-> at, from |-> from, to |-> to]

RECURSIVE Scan(_, _, _, _)
Scan(s, k, mode, stack) ==
  LET top == stack[Len(stack)]
      open == Len(stack) > 1
      c == s[k]
  IN
  IF k > Len(s)
  THEN IF mode # "after" THEN Finding("end_node", k, "", "")
       ELSE IF open THEN Finding("end_close", k, "", "")
       ELSE Finding("complete", k, "", "")
  ELSE IF mode # "after"
  THEN IF c \in Digits THEN Scan(s, k + 1, "weight", stack)
       ELSE IF c \in LeafChars THEN Scan(s, k + 1, "after", stack)
       ELSE IF c = "(" THEN Scan(s, k + 1, "node", Append(stack, "none"))
       ELSE Finding("bad_node", k, "", c)
  ELSE IF c \in {"|", "-"}
  THEN IF top \in {"none", c}
       THEN Scan(s, k + 1, "node", [stack EXCEPT ![Len(stack)] = c])
       ELSE Finding("split_change", k, top, c)
  ELSE IF open
  THEN IF c = ")" THEN Scan(s, k + 1, "after", SubSeq(stack, 1, Len(stack) - 1))
       ELSE Finding("bad_close", k, "", c)
  ELSE Finding("trailing", k, "", c)

\* the scan of the whole input
Scanned == Scan(layout.input, 1, "node", <<"none">>)

\* the number of bytes before position k of the input
RECURSIVE BytesBefore(_, _)
BytesBefore(s, k) ==
  IF k <= 1 THEN 0
  ELSE BytesBefore(s, k - 1) + (IF s[k - 1] \in {"é"} THEN 2 ELSE 1)

\* C23: parse returns SplitTypeChangeFromTo(index, previous, offending)
\* exactly when a separator differs from the separator used before it in
\* the same node, index being the byte index of that separator; the
\* separators of other nodes, nested or enclosing, do not count.
C23_SplitTypeChange ==
  layout.done =>
    \A f \in {Scanned} :
      /\ f.what = "split_change" =>
           layout.result =
             LayoutErr(SplitTypeChangeFromTo(BytesBefore(layout.input, f.at),
                                             f.from, f.to))
      /\ f.what # "split_change" =>
           ~(layout.result.kind = "Err"
             /\ layout.result.err.tag = "SplitTypeChangeFromTo")

\* a nested node used '|' under a parent using '-', and a later nested
\* node changed from '-' to '|'
C23_Witness ==
  /\ layout.done
  /\ layout.input = NestedChange
  /\ layout.result = LayoutErr(SplitTypeChangeFromTo(10, "-", "|"))

\* C24: when the input ends where a node must start (at once, or behind
\* '(', a separator or a weight) parse returns
\* TooShortExpected(NODE_START_CHARS); when it ends where the ')' of an
\* open '(' is due, parse returns TooShortExpected(CLOSING_BRACKET_CHARS).
C24_TooShort ==
  layout.done =>
    \A f \in {Scanned} :
      /\ f.what = "end_node" =>
           layout.result = LayoutErr(TooShortExpected(NODE_START_CHARS))
      /\ f.what = "end_close" =>
           layout.result = LayoutErr(TooShortExpected(CLOSING_BRACKET_CHARS))

\* the input ended behind a weight of ten digits and parse panicked
C24_Witness ==
  /\ layout.done
  /\ layout.input = LongWeightEnd
  /\ layout.result = LayoutPanic

\* C25: a character that cannot start a node, where a node must start
\* (behind its weight, if any), makes parse return ExpectedGotMany(byte
\* index, NODE_START_CHARS, character); a character that is neither a
\* separator nor ')' behind a nested node makes it return
\* ExpectedGotMany(byte index, CLOSING_BRACKET_CHARS, character).
C25_Unexpected ==
  layout.done =>
    \A f \in {Scanned} :
      /\ f.what = "bad_node" =>
           layout.result =
             LayoutErr(ExpectedGotMany(BytesBefore(layout.input, f.at),
                                       NODE_START_CHARS, f.to))
      /\ f.what = "bad_close" =>
           layout.result =
             LayoutErr(ExpectedGotMany(BytesBefore(layout.input, f.at),
                                       CLOSING_BRACKET_CHARS, f.to))

\* a character of no meaning stood behind a weight of ten digits and
\* parse panicked
C25_Witness ==
  /\ layout.done
  /\ layout.input = LongWeightUnexpected
  /\ layout.result = LayoutPanic

\* ---------------------------------------------------------------------
\* What a well-formed layout text means, read off the text itself: the
\* text is cut at its separators outside all brackets; a piece is a
\* weight (decimal digits, 1 when there are none) and then either a leaf
\* letter or a bracketed text, which means what the text inside means.
\* ---------------------------------------------------------------------

\* brackets open before position k
RECURSIVE DepthAt(_, _)
DepthAt(s, k) ==
  IF k <= 1 THEN 0
  ELSE DepthAt(s, k - 1)
         + (IF s[k - 1] = "(" THEN 1 ELSE IF s[k - 1] = ")" THEN -1 ELSE 0)

\* the positions of the separators outside all brackets
TopSeps(s) == {k \in 1..Len(s) : s[k] \in {"|", "-"} /\ DepthAt(s, k) = 0}

\* the pieces between these separators, in order, from position from on
RECURSIVE Pieces(_, _, _)
Pieces(s, from, seps) ==
  IF seps = {} THEN <<SubSeq(s, from, Len(s))>>
  ELSE LET k == CHOOSE x \in seps : \A y \in seps : x <= y
       IN  <<SubSeq(s, from, k - 1)>> \o Pieces(s, k + 1, seps \ {k})

\* the number decimal digits write, as three 16-bit limbs, lowest first
RECURSIVE Decimal(_, _)
Decimal(ds, acc) ==
  IF ds = <<>> THEN acc
  ELSE LET a == acc[1] * 10 + to_digit(Head(ds))
           b == acc[2] * 10 + (a \div Half)
           c == acc[3] * 10 + (b \div Half)
       IN  Decimal(Tail(ds), <<a % Half, b % Half, c>>)

\* the weight the digits ds write, 1 for none: in the two halves of a
\* u32 where it has no more bits than that
WrittenWeight(ds) ==
  IF ds = <<>> THEN U32(1)
  ELSE LET n == Decimal(ds, <<0, 0, 0>>)
       IN  IF n[3] = 0 THEN [hi |-> n[2], lo |-> n[1]]
           ELSE [hi |-> n[2], lo |-> n[1], top |-> n[3]]

\* the number of digits a text starts with
RECURSIVE LeadingDigits(_)
LeadingDigits(s) ==
  IF s # <<>> /\ Head(s) \in Digits THEN 1 + LeadingDigits(Tail(s)) ELSE 0

RECURSIVE Meaning(_)

\* a piece: its weight and the node behind the weight
Child(piece) ==
  LET n == LeadingDigits(piece)
      body == SubSeq(piece, n + 1, Len(piece))
  IN  [node |-> IF Len(body) = 1 THEN Leaf(body[1])
                ELSE Meaning(SubSeq(body, 2, Len(body) - 1)),
       weight |-> WrittenWeight(SubSeq(piece, 1, n))]

Meaning(s) ==
  LET seps == TopSeps(s)
      pieces == Pieces(s, 1, seps)
  IN  IF seps = {} THEN Child(s).node
      ELSE [kind |-> IF \E k \in seps : s[k] = "|" THEN "HSplit" ELSE "VSplit",
            children |-> [i \in 1..Len(pieces) |-> Child(pieces[i])]]

\* C26: for a well-formed input parse returns the layout the text means:
\* the children of a node in the order written, in an HSplit when '|'
\* separates them and a VSplit when '-' does, each with the weight
\* written before it or 1; a bracketed group as one child; a node of one
\* child and no separator as that child itself.
C26_ParseResult ==
  (layout.done /\ Scanned.what = "complete") =>
    layout.result = [kind |-> "Ok", node |-> Meaning(layout.input)]

\* a well-formed input whose first weight has ten digits was parsed and
\* the child carries the weight 1
C26_Witness ==
  /\ layout.done
  /\ layout.input = LongWeight
  /\ layout.result.kind = "Ok"
  /\ layout.result.node.children[1].weight = U32(1)

\* ---------------------------------------------------------------------
\* The code window (src/tui/srcview.rs): SourceView and CodeWindow
\* ---------------------------------------------------------------------

\* the source files a frame may name
Paths == {"a.c", "b.c"}

\* what the file system does to one SourceView::show: changed is whether
\* need_to_load_file finds the file newer than the loaded one (or cannot
\* read its time); load is how far SourceView::load gets
LoadOutcomes == {"open_fails", "syntax_fails", "meta_fails", "ok"}
ShowOutcomes == [changed : BOOLEAN, load : LoadOutcomes]

\* the result of a SourceView operation: the view, Ok or Err, and the
\* message of a panic
ViewResult(v, ok, panic) == [view |-> v, ok |-> ok, panic |-> panic]

\* SourceView::need_to_load_file
need_to_load_file(v, path, changed) ==
  IF v.file_info # NoFile
  THEN IF v.file_info # path THEN TRUE ELSE changed
  ELSE TRUE

\* SourceView::load: PagerContent::from_file, find_syntax_for_file, then
\* pager.load, then file_info with the modification time of the file;
\* each '?' returns with what was assigned before it
load(v, path, l) ==
  CASE l = "open_fails" -> ViewResult(v, FALSE, "")
    [] l = "syntax_fails" ->
         ViewResult(v, FALSE, "file IS openable, see pager content")
    [] l = "meta_fails" -> ViewResult([v EXCEPT !.content = path], FALSE, "")
    [] l = "ok" -> ViewResult([file_info |-> path, content |-> path], TRUE, "")

\* SourceView::show
show(v, path, o) ==
  IF need_to_load_file(v, path, o.changed)
  THEN load(v, path, o.load)
  ELSE ViewResult(v, TRUE, "")

\* macro current_file_and_content_mut: the message of its panic, "" when
\* it yields Some or None
current_file_and_content_mut(v) ==
  CASE v.file_info # NoFile /\ v.content # NoFile -> ""
    [] v.file_info = NoFile /\ v.content = NoFile -> ""
    [] v.file_info # NoFile /\ v.content = NoFile ->
         "Pager has file path, but no content"
    [] v.file_info = NoFile /\ v.content # NoFile ->
         "Pager has content, but no file path"

\* CodeWindow::available_display_mode, variant that keeps the side by
\* side mode when only the source is there
available_display_mode_keep(w) ==
  LET p == w.preferred_mode
      s == w.src_state = SrcAvailable
      a == w.asm_state = AsmAvailable
  IN  CASE p.tag = "Message" -> p
        [] p = Source /\ s -> Source
        [] p = Source /\ ~s /\ a -> Assembly
        [] p = Assembly /\ a -> Assembly
        [] p = Assembly /\ ~a /\ s -> Source
        [] p = SideBySide /\ s -> SideBySide
        [] p = SideBySide /\ ~s /\ a -> Assembly
        [] OTHER -> Message("Neither source nor assembly available!")

\* CodeWindow::available_display_mode: the first arm that matches
available_display_mode(w) ==
  LET p == w.preferred_mode
      s == w.src_state = SrcAvailable
      a == w.asm_state = AsmAvailable
  IN  CASE p.tag = "Message" -> p
        [] p = Source /\ s -> Source
        [] p = Source /\ ~s /\ a -> Assembly
        [] p = Assembly /\ a -> Assembly
        [] p = Assembly /\ ~a /\ s -> Source
        [] p = SideBySide /\ s /\ a -> SideBySide
        [] p = SideBySide /\ s /\ ~a -> Source
        [] p = SideBySide /\ ~s /\ a -> Assembly
        [] OTHER -> Message("Neither source nor assembly available!")

\* CodeWindow::try_load_source_content, variant that leaves a source
\* whose load failed to be loaded again
try_load_source_content_retry(w, o) ==
  IF w.src_state.st = "NotYetLoaded"
  THEN Strict(show(w.src_view, w.src_state.path, o), LAMBDA r :
         [w EXCEPT !.src_view = r.view,
                   !.src_state = IF r.ok THEN SrcAvailable ELSE @,
                   !.panicked = r.panic,
                   !.loads = Append(@, [call |-> "show", ok |-> r.ok])])
  ELSE w

\* CodeWindow::try_load_source_content; o is what the file system does
try_load_source_content(w, o) ==
  IF w.src_state.st = "NotYetLoaded"
  THEN Strict(show(w.src_view, w.src_state.path, o), LAMBDA r :
         [w EXCEPT !.src_view = r.view,
                   !.src_state = IF r.ok THEN SrcAvailable ELSE SrcUnavailable,
                   !.panicked = r.panic,
                   !.loads = Append(@, [call |-> "show", ok |-> r.ok])])
  ELSE w

\* CodeWindow::try_load_asm_content; ok is whether AssemblyView::show_file
\* or show_address succeeds; both start with a command to gdb
\* (data_disassemble_file, data_disassemble_address)
try_load_asm_content(w, ok) ==
  IF w.asm_state.st \in {"NotYetLoadedFile", "NotYetLoadedAddr"}
  THEN [w EXCEPT !.asm_state = IF ok THEN AsmAvailable ELSE AsmUnavailable,
                 !.loads = Append(@,
                   [call |-> IF w.asm_state.st = "NotYetLoadedFile"
                             THEN "show_file" ELSE "show_address",
                    ok |-> ok])]
  ELSE w

\* what the environment does to one try_load_active_content
ActiveOutcomes == [src : ShowOutcomes, asm : BOOLEAN]

\* a panic ends the thread: nothing after it runs
Then(w, F(_)) == IF w.panicked # "" THEN w ELSE F(w)

\* CodeWindow::try_load_active_content, variant that loads both contents
\* in every mode that shows one
try_load_active_content_both(w, o) ==
  IF w.preferred_mode \in {SideBySide, Assembly, Source}
  THEN Then(try_load_source_content(w, o.src),
            LAMBDA x : try_load_asm_content(x, o.asm))
  ELSE w

\* CodeWindow::try_load_active_content
try_load_active_content(w, o) ==
  CASE w.preferred_mode = SideBySide ->
         Then(try_load_source_content(w, o.src),
              LAMBDA x : try_load_asm_content(x, o.asm))
    [] w.preferred_mode = Assembly ->
         Strict(try_load_asm_content(w, o.asm), LAMBDA x :
           IF x.asm_state = AsmUnavailable
           THEN try_load_source_content(x, o.src) ELSE x)
    [] w.preferred_mode = Source ->
         Then(try_load_source_content(w, o.src), LAMBDA x :
           IF x.src_state = SrcUnavailable
           THEN try_load_asm_content(x, o.asm) ELSE x)
    [] OTHER -> w

\* the frame objects of a stop: fullname is the path or NoFile when the
\* field is missing; line and addr tell whether these fields are there
\* and well-formed; range whether find_function_range or, after it,
\* find_valid_address_range gets an address range from gdb
Frames == [fullname : Paths \cup {NoFile}, line : BOOLEAN, addr : BOOLEAN,
           range : BOOLEAN]

\* CodeWindow::show_frame
show_frame(w, frame, o) ==
  LET w1 == [w EXCEPT
               !.loads = <<>>,
               !.preferred_mode =
                 IF @.tag = "Message" THEN Source ELSE @,
               !.src_state =
                 IF frame.fullname # NoFile
                 THEN NotYetLoaded(frame.fullname) ELSE SrcUnavailable,
               !.asm_state =
                 IF frame.fullname # NoFile /\ frame.line
                 THEN NotYetLoadedFile(frame.fullname) ELSE AsmUnavailable]
      w2 == IF w1.asm_state = AsmUnavailable /\ frame.addr /\ frame.range
            THEN [w1 EXCEPT !.asm_state = NotYetLoadedAddr] ELSE w1
  IN  try_load_active_content(w2, o)

\* CodeWindow::toggle_mode, variant whose key goes through the modes the
\* other way round
toggle_mode_backwards(w, o) ==
  LET prev_mode == w.preferred_mode
      toggled == CASE prev_mode = Assembly -> SideBySide
                   [] prev_mode = SideBySide -> Source
                   [] prev_mode = Source -> Assembly
                   [] OTHER -> prev_mode
  IN  Then(try_load_active_content(
             [w EXCEPT !.preferred_mode = toggled, !.loads = <<>>], o),
           LAMBDA x : IF available_display_mode(x) = prev_mode
                      THEN [x EXCEPT !.preferred_mode = prev_mode] ELSE x)

\* CodeWindow::toggle_mode; when the mode went from Source to SideBySide
\* and stays, the assembly view is moved to the source line, which
\* changes neither mode nor content state
toggle_mode(w, o) ==
  LET prev_mode == w.preferred_mode
      toggled == CASE prev_mode = Assembly -> Source
                   [] prev_mode = SideBySide -> Assembly
                   [] prev_mode = Source -> SideBySide
                   [] OTHER -> prev_mode
  IN  Then(try_load_active_content(
             [w EXCEPT !.preferred_mode = toggled, !.loads = <<>>], o),
           LAMBDA x : IF available_display_mode(x) = prev_mode
                      THEN [x EXCEPT !.preferred_mode = prev_mode] ELSE x)

\* AssemblyDecorator::new over the address range start..end, the end
\* excluded
AssemblyDecorator_new(start, end, stop_position, breakpoints) ==
  [stop_position |->
     IF stop_position # NoAddress /\ start <= stop_position
          /\ stop_position < end
     THEN stop_position ELSE NoAddress,
   breakpoint_addresses |->
     {bp.address : bp \in {b \in breakpoints :
        b.address # NoAddress /\ b.enabled /\ start <= b.address
          /\ b.address < end}}]

\* AssemblyDecorator::decorate: the right border of the line at address
\* and its style
decorate(d, address) ==
  LET at_stop_position == d.stop_position # NoAddress
                            /\ d.stop_position = address
      at_breakpoint_position == address \in d.breakpoint_addresses
  IN  CASE at_stop_position /\ at_breakpoint_position ->
             [right_border |-> "▶", fg_color |-> "Red", bold |-> TRUE]
        [] at_stop_position /\ ~at_breakpoint_position ->
             [right_border |-> "▶", fg_color |-> "Green", bold |-> TRUE]
        [] ~at_stop_position /\ at_breakpoint_position ->
             [right_border |-> "●", fg_color |-> "Red", bold |-> FALSE]
        [] OTHER -> [right_border |-> " ", fg_color |-> "", bold |-> FALSE]

\* AssemblyView::set_last_stop_position
set_last_stop_position(v, pos) == [v EXCEPT !.last_stop_position = pos]

\* AssemblyView::show_lines: the range ends after the address of the
\* last line
show_lines(v, lines, breakpoints) ==
  IF lines = <<>>
  THEN v
  ELSE LET min_address == lines[1]
           max_address == lines[Len(lines)] + 1
       IN  [v EXCEPT !.lines = lines,
                     !.decorator = AssemblyDecorator_new(min_address,
                       max_address, v.last_stop_position, breakpoints)]

\* AssemblyView::update_decoration: the range ends at the address of the
\* last line
AssemblyView_update_decoration(v, breakpoints) ==
  IF v.lines # <<>>
  THEN LET min_address == v.lines[1]
           max_address == v.lines[Len(v.lines)]
       IN  [v EXCEPT !.decorator = AssemblyDecorator_new(min_address,
                       max_address, v.last_stop_position, breakpoints)]
  ELSE v

\* SourceView::update_decoration
update_decoration(w) ==
  [w EXCEPT !.panicked = current_file_and_content_mut(w.src_view)]

\* the CodeWindow is used by one thread, which a panic ends
Running == win.panicked = ""

\* the frame of a stop or of a selected stack level is shown
ShowFrame ==
  /\ Running
  /\ \E frame \in Frames, o \in ActiveOutcomes :
       win' = [show_frame(win, frame, o) EXCEPT !.op = "show_frame"]
  /\ UNCHANGED <<sessionVars, layout, sw>>

\* key 'd'
ToggleMode ==
  /\ Running
  /\ \E o \in ActiveOutcomes :
       win' = [toggle_mode(win, o) EXCEPT !.op = "toggle_mode"]
  /\ UNCHANGED <<sessionVars, layout, sw>>

\* CodeWindow::input, last handler: in a mode that shows assembly the
\* event goes to the assembly view; when its current line then has a
\* source position, the source of that position is to be loaded
AsmViewEvent ==
  /\ Running
  /\ available_display_mode(win) \in {Assembly, SideBySide}
  /\ \E path \in Paths, o \in ActiveOutcomes :
       win' = [try_load_active_content(
                 [win EXCEPT !.src_state = NotYetLoaded(path),
                             !.loads = <<>>], o)
               EXCEPT !.op = "input"]
  /\ UNCHANGED <<sessionVars, layout, sw>>

\* CodeWindow::update_after_event when a breakpoint changed since the
\* last update
UpdateAfterEvent ==
  /\ Running
  /\ win' = [update_decoration(
              [win EXCEPT !.asm_view =
                 AssemblyView_update_decoration(@, win.breakpoints)])
            EXCEPT !.op = "update_after_event"]
  /\ UNCHANGED <<sessionVars, layout, sw>>

\* Widget::draw of the CodeWindow
Draw ==
  /\ Running
  /\ win' = [win EXCEPT !.drawn = available_display_mode(win), !.op = "draw"]
  /\ UNCHANGED <<sessionVars, layout, sw>>

InitWindow == SessionInit /\ UiInit

NextWindow ==
  \/ ShowFrame
  \/ ToggleMode
  \/ AsmViewEvent
  \/ UpdateAfterEvent
  \/ Draw

SpecWindow == InitWindow /\ [][NextWindow]_vars

\* C27: toggle_mode does not change the preferred mode blindly: whenever
\* the mode displayed (available_display_mode) after the toggle is the
\* mode displayed before it, the preferred mode after the toggle is the
\* preferred mode before it.
C27_NoBlindToggle ==
  [][(ToggleMode /\ win'.panicked = "") =>
       (available_display_mode(win') = available_display_mode(win) =>
          win'.preferred_mode = win.preferred_mode)]_vars

\* a toggle out of the preferred mode Source ended with the assembly
\* displayed, the source being unavailable
C27_Witness ==
  /\ win.op = "toggle_mode"
  /\ win.preferred_mode = SideBySide
  /\ win.src_state = SrcUnavailable
  /\ win.asm_state = AsmAvailable

\* every value of the three fields available_display_mode reads
DisplayModes ==
  {Source, Assembly, SideBySide, Message(Welcome),
   Message("Neither source nor assembly available!")}
SrcContentStates ==
  {SrcAvailable, SrcUnavailable} \cup {NotYetLoaded(f) : f \in Paths}
AsmContentStates ==
  {AsmAvailable, AsmUnavailable, NotYetLoadedAddr}
    \cup {NotYetLoadedFile(f) : f \in Paths}

\* a CodeWindow with any preferred mode and any content states
InitMode ==
  /\ SessionInit
  /\ layout = LayoutIdle
  /\ sw = SwitchIdle
  /\ \E p \in DisplayModes, s \in SrcContentStates, a \in AsmContentStates :
       win = [CodeWindowNew EXCEPT !.preferred_mode = p, !.src_state = s,
                                   !.asm_state = a]

NextMode == Draw

SpecMode == InitMode /\ [][NextMode]_vars

\* the content a mode needs is there
ContentAvailable(mode) ==
  /\ mode \in {Source, SideBySide} => win.src_state = SrcAvailable
  /\ mode \in {Assembly, SideBySide} => win.asm_state = AsmAvailable

\* C30: the mode available_display_mode returns is Source only with the
\* source Available, Assembly only with the assembly Available,
\* SideBySide only with both; it is the preferred mode when the content
\* that mode needs is Available, else the single view whose content is
\* Available, else the message "Neither source nor assembly
\* available!"; a preferred Message is returned whatever the content
\* states are.
C30_AvailableDisplayMode ==
  win.op = "draw" =>
    LET r == win.drawn
        p == win.preferred_mode
    IN  /\ r \in DisplayModes
        /\ r.tag # "Message" => ContentAvailable(r)
        /\ p.tag = "Message" => r = p
        /\ (p.tag # "Message" /\ ContentAvailable(p)) => r = p
        /\ (p.tag # "Message" /\ ~ContentAvailable(p)) =>
             /\ ContentAvailable(Source) => r = Source
             /\ ContentAvailable(Assembly) => r = Assembly
             /\ (~ContentAvailable(Source) /\ ~ContentAvailable(Assembly)) =>
                  r = Message("Neither source nor assembly available!")

\* the side by side mode is preferred, only the source is there, and the
\* source was drawn
C30_Witness ==
  /\ win.op = "draw"
  /\ win.preferred_mode = SideBySide
  /\ win.src_state = SrcAvailable
  /\ win.asm_state # AsmAvailable
  /\ win.drawn = Source

\* C28: the SourceView has file information exactly when its pager has
\* content, whatever SourceView::load did, so that neither panic of
\* current_file_and_content_mut happens.
C28_FileInfoInStep ==
  /\ (win.src_view.file_info = NoFile) <=> (win.src_view.content = NoFile)
  /\ win.panicked \notin {"Pager has file path, but no content",
                          "Pager has content, but no file path"}

\* update_decoration panicked on a pager that has content but no file
\* information
C28_Witness ==
  /\ win.op = "update_after_event"
  /\ win.src_view = [file_info |-> NoFile, content |-> "a.c"]
  /\ win.panicked = "Pager has content, but no file path"

\* ---------------------------------------------------------------------
\* CodeWindow::try_switch_stackframe (keys PageUp and PageDown), as the
\* caller of the session: each of its calls on the session is the steps
\* of that call above; between two calls it takes one step of its own.
\* While it runs, ret is Return("None") from the start of a call to its
\* return.
\* ---------------------------------------------------------------------

\* what the steps of try_switch_stackframe itself leave alone
switchKeeps ==
  <<pc, call, nWritten, workerVars, gdbVars, stdin, stdout, sigint, layout>>

\* the stack levels get_stack_level may return (-1: it returned an
\* error), and the depths the reply to stack_info_depth may carry (-1:
\* it has no field "depth")
Levels == 0..MaxLevel
Depths == 0..(MaxLevel + 1)

\* u64::checked_sub(1).unwrap_or(0)
checked_sub_1_or_0(n) == IF n >= 1 THEN n - 1 ELSE 0

\* u64::min
min(a, b) == IF a <= b THEN a ELSE b

\* try_switch_stackframe returns r
SwitchReturn(s, r) == [s EXCEPT !.step = "returned", !.result = r]

\* the lines after new_level is known: nothing to do when it is the
\* current level, else the call of execute_later(select_frame(new_level))
select_or_return(s, new_level) ==
  IF s.level # new_level
  THEN [s EXCEPT !.new_level = new_level, !.step = "select",
                 !.calls = Append(@, "execute_later(select_frame)")]
  ELSE SwitchReturn([s EXCEPT !.new_level = new_level], "Ok")

\* try_switch_stackframe up to its first call on the session
SwitchStart ==
  /\ sw.step \in {"idle", "returned"}
  /\ pc = "ready"
  /\ Running
  /\ \E up \in BOOLEAN, level \in Levels \cup {-1} :
       LET s == [SwitchIdle EXCEPT !.up = up, !.level = level, !.before = win]
       IN  sw' = IF level = -1 THEN SwitchReturn(s, "Err")
                 ELSE IF up
                 THEN [s EXCEPT !.step = "depth",
                                !.calls = <<"execute(stack_info_depth)">>]
                 ELSE select_or_return(s, checked_sub_1_or_0(level))
  /\ ret' = Return("None")
  /\ UNCHANGED <<switchKeeps, win>>

\* execute(stack_info_depth) returned: an error ends the switch with Ok;
\* else the new level is computed from the depth
SwitchAfterDepth ==
  /\ sw.step = "depth"
  /\ pc = "ready"
  /\ ret.tag # "None"
  /\ IF ret.tag # "Ok"
     THEN sw' = SwitchReturn([sw EXCEPT !.failed = "depth"], "Ok")
     ELSE \E depth \in Depths \cup {-1} :
            sw' = IF depth = -1 THEN SwitchReturn(sw, "Err")
                  ELSE select_or_return([sw EXCEPT !.depth = depth],
                         min(sw.level + 1, checked_sub_1_or_0(depth)))
  /\ ret' = Return("None")
  /\ UNCHANGED <<switchKeeps, win>>

\* execute_later(select_frame) returned: execute(stack_info_frame) is
\* called
SwitchAfterSelect ==
  /\ sw.step = "select"
  /\ pc = "ready"
  /\ ret.tag # "None"
  /\ sw' = [sw EXCEPT !.step = "frame", !.select_cmd = call.cmd,
                      !.calls = Append(@, "execute(stack_info_frame)")]
  /\ ret' = Return("None")
  /\ UNCHANGED <<switchKeeps, win>>

\* execute(stack_info_frame) returned: the frame of a Done record is
\* shown; a record of another class or without a frame is an error; an
\* error of execute ends the switch with Ok
SwitchAfterFrame ==
  /\ sw.step = "frame"
  /\ pc = "ready"
  /\ ret.tag # "None"
  /\ LET s == [sw EXCEPT !.frame_cmd = call.cmd, !.frame_ret = ret] IN
     IF ret.tag # "Ok"
     THEN /\ sw' = SwitchReturn([s EXCEPT !.failed = "frame"], "Ok")
          /\ UNCHANGED win
     ELSE IF ret.v.class # "Done"
     THEN /\ sw' = SwitchReturn(s, "Err")
          /\ UNCHANGED win
     ELSE \/ /\ sw' = SwitchReturn(s, "Err")
             /\ UNCHANGED win
          \/ /\ sw' = SwitchReturn(s, "Ok")
             /\ \E frame \in Frames, o \in ActiveOutcomes :
                  win' = [show_frame(win, frame, o) EXCEPT !.op = "show_frame"]
  /\ ret' = Return("None")
  /\ UNCHANGED switchKeeps

\* the calls of try_switch_stackframe on the session
SwitchExecute ==
  /\ sw.step \in {"depth", "frame"}
  /\ ret.tag = "None"
  /\ ExecuteCheck

SwitchExecuteLater ==
  /\ sw.step = "select"
  /\ ret.tag = "None"
  /\ ExecuteLaterWrite

InitFrame == SessionInit /\ UiInit

NextFrame ==
  \/ SwitchStart
  \/ SwitchExecute
  \/ ExecuteWrite
  \/ ExecuteRecv
  \/ SwitchAfterDepth
  \/ SwitchExecuteLater
  \/ ExecuteLaterRecv
  \/ SwitchAfterSelect
  \/ SwitchAfterFrame
  \/ WorkerLine
  \/ WorkerEof
  \/ WorkerReadFail
  \/ GdbReply
  \/ GdbExec
  \/ GdbExit

SpecFrame == InitFrame /\ [][NextFrame]_vars

\* the level the claim gives for a switch from level by way of depth
TargetLevel ==
  IF sw.up
  THEN LET top == IF sw.depth - 1 >= 0 THEN sw.depth - 1 ELSE 0
       IN  IF sw.level + 1 <= top THEN sw.level + 1 ELSE top
  ELSE IF sw.level - 1 >= 0 THEN sw.level - 1 ELSE 0

\* the new level has been computed
LevelKnown ==
  /\ sw.step \in {"select", "frame", "returned"}
  /\ sw.level # -1
  /\ sw.up => sw.depth # -1

\* the calls made once the new level was known
CallsForLevel == IF sw.up THEN Tail(sw.calls) ELSE sw.calls

\* C29: in try_switch_stackframe the new level is min(level + 1,
\* max(depth - 1, 0)) upwards and max(level - 1, 0) downwards; when it
\* is the current level no further command is sent; otherwise the calls
\* are one execute_later(select_frame) and next one
\* execute(stack_info_frame), and no others, and a record which that
\* execute returns is the reply to stack_info_frame, not the reply to
\* select_frame; when the depth query or the frame query returns an
\* error (Busy, Quit) the function returns Ok and the window is as it
\* was.
C29_SwitchStackframe ==
  /\ LevelKnown =>
       /\ sw.new_level = TargetLevel
       /\ TargetLevel = sw.level => CallsForLevel = <<>>
       /\ TargetLevel # sw.level =>
            /\ sw.step = "select" =>
                 CallsForLevel = <<"execute_later(select_frame)">>
            /\ sw.step \in {"frame", "returned"} =>
                 CallsForLevel = <<"execute_later(select_frame)",
                                   "execute(stack_info_frame)">>
  /\ (sw.step = "frame" /\ pc # "ready") => call.op = "execute"
  /\ (sw.step = "returned" /\ sw.frame_ret.tag = "Ok") =>
       /\ sw.frame_cmd # sw.select_cmd
       /\ sw.frame_ret.v = ReplyRecord(sw.frame_cmd)
       /\ sw.frame_ret.v # ReplyRecord(sw.select_cmd)
  /\ sw.failed # "" =>
       /\ sw.step = "returned"
       /\ sw.result = "Ok"
       /\ win = sw.before

\* a switch upwards from level 0 selected level 1, its frame query
\* returned a record, and the frame was shown
C29_Witness ==
  /\ sw.step = "returned"
  /\ sw.up
  /\ sw.level = 0
  /\ sw.new_level = 1
  /\ sw.frame_ret.tag = "Ok"
  /\ sw.result = "Ok"
  /\ win.op = "show_frame"

\* ---------------------------------------------------------------------
\* The preferred mode of the CodeWindow over time
\* ---------------------------------------------------------------------

\* the mode after a mode in the cycle of key 'd'
NextInCycle(mode) ==
  CASE mode = Source -> SideBySide
    [] mode = SideBySide -> Assembly
    [] mode = Assembly -> Source
    [] OTHER -> mode

\* the content a mode needs is Available in the window w
ContentAvailableIn(w, mode) ==
  /\ mode \in {Source, SideBySide} => w.src_state = SrcAvailable
  /\ mode \in {Assembly, SideBySide} => w.asm_state = AsmAvailable

\* C31: a toggle_mode that returns with the content of the next mode of
\* the cycle Source -> SideBySide -> Assembly -> Source Available leaves
\* that next mode preferred, and it leaves a preferred Message as it is;
\* the preferred mode leaves Message only in show_frame, which makes it
\* Source; and a preferred mode that is not a Message is not a Message
\* after any step of the window.
C31_PreferredModeCycle ==
  [][/\ (ToggleMode /\ win'.panicked = "") =>
          /\ (win.preferred_mode.tag # "Message"
                /\ ContentAvailableIn(win', NextInCycle(win.preferred_mode))) =>
               win'.preferred_mode = NextInCycle(win.preferred_mode)
          /\ win.preferred_mode.tag = "Message" =>
               win'.preferred_mode = win.preferred_mode
     /\ (win.preferred_mode.tag = "Message"
           /\ win'.preferred_mode # win.preferred_mode) =>
          (win'.op = "show_frame" /\ win'.preferred_mode = Source)
     /\ win.preferred_mode.tag # "Message" =>
          win'.preferred_mode.tag # "Message"]_vars

\* a toggle out of the side by side mode returned with the assembly
\* preferred and both contents Available
C31_Witness ==
  /\ win.op = "toggle_mode"
  /\ win.panicked = ""
  /\ win.preferred_mode = Assembly
  /\ win.src_state = SrcAvailable
  /\ win.asm_state = AsmAvailable

\* ---------------------------------------------------------------------
\* Content loading of the CodeWindow, called on a window in any state
\* ---------------------------------------------------------------------

\* a SourceView without a file, or with one of the files loaded
SourceViews ==
  {SourceViewNew} \cup {[file_info |-> f, content |-> f] : f \in Paths}

\* a CodeWindow with any preferred mode, any content states and any
\* loaded file, before an operation
InitLoad ==
  /\ SessionInit
  /\ layout = LayoutIdle
  /\ sw = SwitchIdle
  /\ \E p \in DisplayModes, s \in SrcContentStates, a \in AsmContentStates,
        v \in SourceViews :
       win = [CodeWindowNew EXCEPT !.preferred_mode = p, !.src_state = s,
                                   !.asm_state = a, !.src_view = v]

\* a call of try_load_source_content
TryLoadSource ==
  /\ Running
  /\ \E o \in ShowOutcomes :
       win' = [try_load_source_content(win, o)
               EXCEPT !.op = "try_load_source_content"]
  /\ UNCHANGED <<sessionVars, layout, sw>>

\* a call of try_load_asm_content
TryLoadAsm ==
  /\ Running
  /\ \E ok \in BOOLEAN :
       win' = [try_load_asm_content(win, ok)
               EXCEPT !.op = "try_load_asm_content"]
  /\ UNCHANGED <<sessionVars, layout, sw>>

\* a call of try_load_active_content, as the first loading of an
\* operation
TryLoadActive ==
  /\ Running
  /\ \E o \in ActiveOutcomes :
       win' = [try_load_active_content([win EXCEPT !.loads = <<>>], o)
               EXCEPT !.op = "try_load_active_content"]
  /\ UNCHANGED <<sessionVars, layout, sw>>

NextLoad ==
  \/ TryLoadSource
  \/ TryLoadAsm
  \/ TryLoadActive

SpecLoad == InitLoad /\ [][NextLoad]_vars

\* the calls one step added to the log of loads
NewLoads == SubSeq(win'.loads, Len(win.loads) + 1, Len(win'.loads))

\* C32: a try_load_source_content that returns leaves src_state Available
\* or Unavailable, never NotYetLoaded: a NotYetLoaded source was loaded by
\* one call of SourceView::show and is Available exactly when that call
\* returned Ok; a try_load_asm_content leaves asm_state Available or
\* Unavailable, never NotYetLoadedFile or NotYetLoadedAddr: such an
\* assembly was loaded by one call of show_file or show_address and is
\* Available exactly when the call returned Ok; a state that was
\* Available or Unavailable is left as it was, without a call to a view
\* and so without a command to gdb.
C32_LoadingResolves ==
  [][/\ (TryLoadSource /\ win'.panicked = "") =>
          /\ win'.src_state \in {SrcAvailable, SrcUnavailable}
          /\ IF win.src_state.st = "NotYetLoaded"
             THEN /\ Len(NewLoads) = 1
                  /\ NewLoads[1].call = "show"
                  /\ (win'.src_state = SrcAvailable) <=> NewLoads[1].ok
             ELSE /\ win'.src_state = win.src_state
                  /\ NewLoads = <<>>
     /\ TryLoadAsm =>
          /\ win'.asm_state \in {AsmAvailable, AsmUnavailable}
          /\ IF win.asm_state.st \in {"NotYetLoadedFile", "NotYetLoadedAddr"}
             THEN /\ Len(NewLoads) = 1
                  /\ NewLoads[1].call =
                       IF win.asm_state.st = "NotYetLoadedFile"
                       THEN "show_file" ELSE "show_address"
                  /\ (win'.asm_state = AsmAvailable) <=> NewLoads[1].ok
             ELSE /\ win'.asm_state = win.asm_state
                  /\ NewLoads = <<>>]_vars

\* a source whose load failed is Unavailable, and the assembly loaded by
\* show_file after it is Available
C32_Witness ==
  /\ win.op = "try_load_asm_content"
  /\ win.loads = <<[call |-> "show", ok |-> FALSE],
                   [call |-> "show_file", ok |-> TRUE]>>
  /\ win.src_state = SrcUnavailable
  /\ win.asm_state = AsmAvailable

\* the view calls of the last try_load_active_content
LoadCalls(w) == {w.loads[i].call : i \in DOMAIN w.loads}
SourceLoaded(w) == "show" \in LoadCalls(w)
AssemblyLoaded(w) == LoadCalls(w) \cap {"show_file", "show_address"} # {}

\* C33: in a try_load_active_content that returns, with the preferred
\* mode Source the assembly is loaded only if the source ended up
\* Unavailable; with Assembly the source is loaded only if the assembly
\* ended up Unavailable; with SideBySide a source and an assembly that
\* are to be loaded are both loaded; with a Message nothing is loaded and
\* no field of the window changes.
C33_FallbackLoading ==
  [][(TryLoadActive /\ win'.panicked = "") =>
       /\ win.preferred_mode = Source =>
            (AssemblyLoaded(win') => win'.src_state = SrcUnavailable)
       /\ win.preferred_mode = Assembly =>
            (SourceLoaded(win') => win'.asm_state = AsmUnavailable)
       /\ win.preferred_mode = SideBySide =>
            /\ win.src_state.st = "NotYetLoaded" => SourceLoaded(win')
            /\ win.asm_state.st \in {"NotYetLoadedFile", "NotYetLoadedAddr"} =>
                 AssemblyLoaded(win')
       /\ win.preferred_mode.tag = "Message" =>
            /\ win'.loads = <<>>
            /\ win' = [win EXCEPT !.op = "try_load_active_content",
                                  !.loads = <<>>]]_vars

\* with the preferred mode Source, the load of the source failed and the
\* assembly was loaded in its place
C33_Witness ==
  /\ win.op = "try_load_active_content"
  /\ win.preferred_mode = Source
  /\ win.loads = <<[call |-> "show", ok |-> FALSE],
                   [call |-> "show_file", ok |-> TRUE]>>
  /\ win.src_state = SrcUnavailable
  /\ win.asm_state = AsmAvailable

\* with the preferred mode Source and the source Unavailable, an assembly
\* that is to be loaded is loaded, and likewise for the mode Assembly
FallbackHappens ==
  [][(TryLoadActive /\ win'.panicked = "") =>
       /\ (win.preferred_mode = Source /\ win'.src_state = SrcUnavailable
             /\ win.asm_state.st \in {"NotYetLoadedFile", "NotYetLoadedAddr"}) =>
            AssemblyLoaded(win')
       /\ (win.preferred_mode = Assembly /\ win'.asm_state = AsmUnavailable
             /\ win.src_state.st = "NotYetLoaded") =>
            SourceLoaded(win')]_vars

\* ---------------------------------------------------------------------
\* The decoration of the assembly view (src/tui/srcview.rs):
\* AssemblyDecorator and AssemblyView
\* ---------------------------------------------------------------------

\* the addresses of assembly lines
Addrs == 0..MaxAddr

\* the lines of a disassembly, by their addresses: get_instructions and
\* disassemble_address sort them by address
AssemblyLines ==
  {s \in SeqsUpTo(Addrs, MaxAddr + 1) :
     \A i \in DOMAIN s : \A j \in DOMAIN s : i < j => s[i] < s[j]}

\* the breakpoints gdb may hold: with or without an address, enabled or
\* not
BreakPoints == [address : Addrs \cup {NoAddress}, enabled : BOOLEAN]
BreakPointSets == {b \in SUBSET BreakPoints : Cardinality(b) <= MaxBps}

InitDecor == SessionInit /\ UiInit

\* gdb reports breakpoints inserted, deleted, enabled or disabled
BreakpointsChange ==
  /\ Running
  /\ \E b \in BreakPointSets \ {win.breakpoints} :
       win' = [win EXCEPT !.breakpoints = b, !.op = "breakpoints"]
  /\ UNCHANGED <<sessionVars, layout, sw>>

\* show_frame tells the assembly view the address of the frame
SetLastStopPosition ==
  /\ Running
  /\ \E address \in Addrs :
       win' = [win EXCEPT
                 !.asm_view = set_last_stop_position(@, address),
                 !.op = "set_last_stop_position"]
  /\ UNCHANGED <<sessionVars, layout, sw>>

\* show_file or show_address got the lines of a disassembly
ShowLines ==
  /\ Running
  /\ \E lines \in AssemblyLines :
       win' = [win EXCEPT
                 !.asm_view = show_lines(@, lines, win.breakpoints),
                 !.op = "show_lines"]
  /\ UNCHANGED <<sessionVars, layout, sw>>

NextDecor ==
  \/ BreakpointsChange
  \/ SetLastStopPosition
  \/ ShowLines
  \/ UpdateAfterEvent

SpecDecor == InitDecor /\ [][NextDecor]_vars

\* the decoration of every displayed line, by its position
Decoration(v, d) == [i \in DOMAIN v.lines |-> decorate(d, v.lines[i])]

\* C34: after update_decoration, every displayed line of the assembly
\* view is decorated as the decorator show_lines installs for the same
\* lines, breakpoints and stop position decorates it; so an enabled
\* breakpoint or the stop position at the address of the last line is
\* marked by both.
C34_SameDecoration ==
  win.op = "update_after_event" =>
    LET v == win.asm_view
    IN  Decoration(v, v.decorator) =
          Decoration(v, show_lines(v, v.lines, win.breakpoints).decorator)

\* update_decoration left the last of two lines unmarked, at the address
\* of an enabled breakpoint
C34_Witness ==
  /\ win.op = "update_after_event"
  /\ win.asm_view.lines = <<0, 1>>
  /\ win.breakpoints = {[address |-> 1, enabled |-> TRUE]}
  /\ decorate(win.asm_view.decorator, 1).right_border = " "

\* the decorator show_lines installs for lines it is given marks exactly
\* the displayed lines at the stop position and at the addresses of
\* enabled breakpoints
ShowLinesCovers ==
  [][(ShowLines /\ win'.asm_view =
        show_lines(win.asm_view, win'.asm_view.lines, win.breakpoints)) =>
       LET v == win'.asm_view
       IN  \A i \in DOMAIN v.lines :
             LET m == decorate(v.decorator, v.lines[i])
             IN  /\ m.right_border = "▶" <=> v.last_stop_position = v.lines[i]
                 /\ m.fg_color = "Red" <=>
                      \E b \in win.breakpoints :
                        b.enabled /\ b.address = v.lines[i]]_vars

====
